---- MODULE Spec2Model ----
(***************************************************************************)
(* A model of lib_stream_pdf's DocumentWriter: the incremental PDF writer   *)
(* that streams indirect objects to a file, keeps a ledger of their byte    *)
(* offsets and, on finish_writing, emits the page tree, the outline tree,   *)
(* the catalog, the info dictionary, the xref table and the trailer.        *)
(*                                                                          *)
(* The output file is a sequence of chunks; each chunk carries its length   *)
(* in bytes, computed from the serialization rules of objects.rs, so that   *)
(* byte offsets are sums of chunk lengths.                                  *)
(***************************************************************************)
EXTENDS Integers, Sequences, FiniteSets, TLC

\* Bounds of the model.
\* The writer stops taking images and pages once the id counter would pass
\* MaxObjectNum; an outline has at most MaxOutlineItems items in all.
MaxObjectNum == 6
MaxOutlineItems == 3

VARIABLES
    file,             \* DocumentWriter.file: the chunks written so far
    id_generator,     \* DocumentWriter.id_generator: next_id, and as a history
                      \* variable the ids issued so far, in order
    written_objects,  \* DocumentWriter.written_objects: the ledger
    pages_root_id,    \* DocumentWriter.pages_root_id
    pages,            \* DocumentWriter.pages: Vec<PageRef>
    writer_state,     \* "Open" while the writer is owned by the caller,
                      \* "Closed" once finish_writing has consumed it
    image_refs,       \* the ImageRefs the caller has been handed
    returned,         \* what the last operation did and returned
    input,            \* the arguments of a function that is called on its own
    output,           \* what that call returned, None before the call
    volume,           \* manga_pdf: the progress of one make_volume call
    pdf_page          \* PDFPage.instructions and the text layout borrowing it

vars == <<file, id_generator, written_objects, pages_root_id, pages,
          writer_state, image_refs, returned, input, output, volume, pdf_page>>

-----------------------------------------------------------------------------
(* Small helpers *)

RECURSIVE Digits(_)
\* Number of decimal digits "{}" prints for a non-negative integer.
Digits(n) == IF n < 10 THEN 1 ELSE 1 + Digits(n \div 10)

RECURSIVE SumSeq(_)
SumSeq(s) == IF s = <<>> THEN 0 ELSE Head(s) + SumSeq(Tail(s))

RECURSIVE FlattenSeq(_)
FlattenSeq(ss) == IF ss = <<>> THEN <<>> ELSE Head(ss) \o FlattenSeq(Tail(ss))

RECURSIVE SetToSeq(_)
\* Some enumeration of a finite set.
SetToSeq(S) == IF S = {} THEN <<>>
               ELSE LET x == CHOOSE y \in S : TRUE
                    IN <<x>> \o SetToSeq(S \ {x})

Range(s) == { s[i] : i \in DOMAIN s }

None == [some |-> FALSE]
Some(x) == [some |-> TRUE, v |-> x]

\* The parts of the state that a specification does not use stay Unused.
Unused == [unused |-> TRUE]

-----------------------------------------------------------------------------
(* objects.rs: the object model *)

Null == [t |-> "Null"]
IntObj(n) == [t |-> "Int", v |-> n]
RealObj(x) == [t |-> "Real", v |-> x]
NameObj(s) == [t |-> "Name", v |-> s]
StrObj(cps) == [t |-> "Str", v |-> cps]
ArrayObj(seq) == [t |-> "Array", v |-> seq]
DictObj(d) == [t |-> "Dictionary", v |-> d]
RefObj(id) == [t |-> "Ref", v |-> id]

\* impl From<Option<T>> for Object, for an optional id and an optional
\* string: None becomes Object::Null.
RefFromOption(opt) == IF opt.some THEN RefObj(opt.v) ELSE Null
StrFromOption(opt) == IF opt.some THEN StrObj(opt.v) ELSE Null

\* ObjectId(u32, u16) is the pair <<object number, generation>>.
object_num(id) == id[1]
generation_num(id) == id[2]

\* ObjectId ordering (derive(Ord)): lexicographic on (number, generation).
IdLess(a, b) == \/ a[1] < b[1]
                \/ a[1] = b[1] /\ a[2] < b[2]

\* ObjectId::write_to: "{} {}".
IdLen(id) == Digits(id[1]) + 1 + Digits(id[2])

\* ObjectIdGenerator::new
ObjectIdGenerator_new == [next_id |-> 0, issued |-> <<>>]

\* next without the increment.
GeneratorNext_stuck(generator, generation) ==
    [id |-> <<generator.next_id, generation>>,
     gen |-> [next_id |-> generator.next_id,
              issued |-> Append(generator.issued,
                                <<generator.next_id, generation>>)]]

\* ObjectIdGenerator::next: hands out the counter and advances it by one.
\* (issued only records what was handed out.)
GeneratorNext(generator, generation) ==
    [id |-> <<generator.next_id, generation>>,
     gen |-> [next_id |-> generator.next_id + 1,
              issued |-> Append(generator.issued,
                                <<generator.next_id, generation>>)]]

\* Dictionary: a BTreeMap<Name, Object>, here a function from names.
Dictionary_new == <<>>
Insert(d, name, value) ==
    [k \in (DOMAIN d) \cup {name} |-> IF k = name THEN value ELSE d[k]]
is_empty(d) == DOMAIN d = {}

\* Stream::new: Length is derived from the payload.
Stream_new(d, nbytes) ==
    [t |-> "Stream", d |-> Insert(d, "Length", IntObj(nbytes)), n |-> nbytes]

\* Name::write_to: '/' and then each byte; every name the writer builds is
\* made of ASCII letters and digits, which are written literally.
NameLen(s) == 1 + Len(s)

\* utils::to_utf16: FE FF, then the big-endian bytes of each UTF-16 unit.
EncodeUtf16(cp) ==
    IF cp < 65536 THEN <<cp>>
    ELSE <<55296 + ((cp - 65536) \div 1024), 56320 + ((cp - 65536) % 1024)>>
to_utf16(cps) ==
    <<254, 255>> \o
    FlattenSeq([i \in DOMAIN cps |->
        FlattenSeq([j \in DOMAIN EncodeUtf16(cps[i]) |->
            <<EncodeUtf16(cps[i])[j] \div 256, EncodeUtf16(cps[i])[j] % 256>>])])

\* A test that looks at the first character only.
is_ascii_first(cps) == cps = <<>> \/ cps[1] < 128

\* str::is_ascii: every code point is below 0x80 (its UTF-8 form is then the
\* code point itself, one byte).
is_ascii(cps) == \A i \in DOMAIN cps : cps[i] < 128

\* write_string_bytes: '(' .. ')' with '(' ')' '\' escaped by '\'.
write_string_bytes(bytes) ==
    <<40>> \o
    FlattenSeq([i \in DOMAIN bytes |->
        IF bytes[i] \in {40, 41, 92} THEN <<92, bytes[i]>> ELSE <<bytes[i]>>])
    \o <<41>>

StrBytes(cps) ==
    IF is_ascii(cps) THEN write_string_bytes(cps)
    ELSE write_string_bytes(to_utf16(cps))

RECURSIVE ObjLen(_)
\* Object::write_to: the number of bytes the object serializes to.
ObjLen(o) ==
    CASE o.t = "Null" -> 4
      [] o.t = "Int" -> IF o.v < 0 THEN 1 + Digits(-o.v) ELSE Digits(o.v)
      [] o.t = "Real" -> Digits(o.v) + 6
      [] o.t = "Name" -> NameLen(o.v)
      [] o.t = "Str" -> Len(StrBytes(o.v))
      [] o.t = "Array" ->
            2 + SumSeq([i \in DOMAIN o.v |-> ObjLen(o.v[i]) + 1])
      [] o.t = "Dictionary" ->
            LET ks == SetToSeq(DOMAIN o.v)
            IN 4 + SumSeq([i \in DOMAIN ks |->
                       NameLen(ks[i]) + 1 + ObjLen(o.v[ks[i]])])
      [] o.t = "Stream" -> ObjLen(DictObj(o.d)) + 7 + o.n + 10
      [] o.t = "Ref" -> IdLen(o.v) + 2

-----------------------------------------------------------------------------
(* lib.rs: the output file and the ledger *)

\* The chunks a writer puts into the file.
HeaderChunk == [k |-> "header", len |-> 8]                 \* "%PDF-1.7"
NewlineChunk == [k |-> "nl", len |-> 1]                    \* "\n"
\* "{id} obj\n{object}\nendobj"
ObjectChunk(id, object) ==
    [k |-> "obj", id |-> id, body |-> object,
     len |-> IdLen(id) + 5 + ObjLen(object) + 7]

\* BufWriter::seek(SeekFrom::Current(0)) flushes and reports the number of
\* bytes written so far.
file_position(f) == SumSeq([i \in DOMAIN f |-> f[i].len])

\* The byte offset at which chunk i of f begins.
ChunkStart(f, i) == file_position(SubSeq(f, 1, i - 1))

WrittenObject_new(id, byte_offset, is_free) ==
    [id |-> id, byte_offset |-> byte_offset, is_free |-> is_free]

\* The writer as one value: the fields of DocumentWriter.
Writer == [file |-> file, id_generator |-> id_generator,
           written_objects |-> written_objects,
           pages_root_id |-> pages_root_id, pages |-> pages]

\* The generation of the reserved free entry: u16::max_value().
U16Max == 65535

\* stream_to_file with the reserved entry given generation 0.
stream_to_file_gen0 ==
    LET g0 == GeneratorNext(ObjectIdGenerator_new, 0)
        g1 == GeneratorNext(g0.gen, 0)
    IN [file |-> <<HeaderChunk>>,
        id_generator |-> g1.gen,
        written_objects |-> <<WrittenObject_new(g0.id, 0, TRUE)>>,
        pages_root_id |-> g1.id,
        pages |-> <<>>]

\* DocumentWriter::stream_to_file: header, the free entry under id 0 and the
\* page-tree id reserved.
stream_to_file ==
    LET g0 == GeneratorNext(ObjectIdGenerator_new, U16Max)
        g1 == GeneratorNext(g0.gen, 0)
    IN [file |-> <<HeaderChunk>>,
        id_generator |-> g1.gen,
        written_objects |-> <<WrittenObject_new(g0.id, 0, TRUE)>>,
        pages_root_id |-> g1.id,
        pages |-> <<>>]

\* write_object_with_ref with the position taken before the separating
\* newline is written.
write_object_with_ref_early(w, id, object) ==
    LET object_start == file_position(w.file)
        f2 == w.file \o <<NewlineChunk, ObjectChunk(id, object)>>
    IN [w EXCEPT !.file = f2,
                 !.written_objects =
                     Append(@, WrittenObject_new(id, object_start, FALSE))]

\* DocumentWriter::write_object_with_ref
write_object_with_ref(w, id, object) ==
    LET f1 == Append(w.file, NewlineChunk)
        object_start == file_position(f1)
        f2 == Append(f1, ObjectChunk(id, object))
    IN [w EXCEPT !.file = f2,
                 !.written_objects =
                     Append(@, WrittenObject_new(id, object_start, FALSE))]

\* A write_object_ref that hands back an id other than the one it wrote.
write_object_ref_other_id(w, object) ==
    LET g == GeneratorNext(w.id_generator, 0)
    IN [w |-> write_object_with_ref([w EXCEPT !.id_generator = g.gen],
                                    g.id, object),
        id |-> <<object_num(g.id) + 1, 0>>]

\* DocumentWriter::write_object_ref: a fresh id, then write_object_with_ref.
write_object_ref(w, object) ==
    LET g == GeneratorNext(w.id_generator, 0)
    IN [w |-> write_object_with_ref([w EXCEPT !.id_generator = g.gen],
                                    g.id, object),
        id |-> g.id]

-----------------------------------------------------------------------------
(* pdf_image.rs, page.rs: what add_image and add_page are given *)

\* ImageRef::new: the resource name is "Image{object number}".
ImageRef_new(id, width, height) ==
    [id |-> id, ref_name |-> "Image" \o ToString(object_num(id)),
     width |-> width, height |-> height]
ref_from_image(id, image) == ImageRef_new(id, image.width, image.height)

pdf_filter(image_type) ==
    IF image_type = "FlateLossless" THEN "FlateDecode" ELSE "DCTDecode"
pdf_colour_space(colour_type) ==
    IF colour_type = "Gray" THEN "DeviceGray" ELSE "DeviceRGB"

make_image_stream(image) ==
    LET d1 == Insert(Dictionary_new, "Type", NameObj("XObject"))
        d2 == Insert(d1, "Subtype", NameObj("Image"))
        d3 == Insert(d2, "Width", IntObj(image.width))
        d4 == Insert(d3, "Height", IntObj(image.height))
        d5 == Insert(d4, "ColorSpace",
                     NameObj(pdf_colour_space(image.colour_type)))
        d6 == Insert(d5, "BitsPerComponent", IntObj(8))
        d7 == Insert(d6, "Filter", NameObj(pdf_filter(image.image_type)))
    IN Stream_new(d7, image.image_bytes)

\* The PDFImages the caller passes in (image_bytes is the payload length).
ImageInputs ==
    { [image_bytes |-> 3, width |-> 1000, height |-> 1500,
       image_type |-> "Jpg", colour_type |-> "RGB"],
      [image_bytes |-> 120, width |-> 7, height |-> 5,
       image_type |-> "FlateLossless", colour_type |-> "Gray"] }

PageRef_new(id, height) == [id |-> id, height |-> height]
ref_from_page(id, page) == PageRef_new(id, page.height)

\* PDFPage::make_content_stream: the instructions, deflated; the length of
\* the deflated bytes is the codec's to decide.
make_content_stream(content_len) ==
    Stream_new(Insert(Dictionary_new, "Filter", NameObj("FlateDecode")),
               content_len)

make_page_dictionary(parent_id, page, content_stream_ref) ==
    LET d1 == Insert(Dictionary_new, "Type", NameObj("Page"))
        d2 == Insert(d1, "Parent", RefObj(parent_id))
        d3 == Insert(d2, "Contents", RefObj(content_stream_ref))
        d4 == Insert(d3, "MediaBox",
                     ArrayObj(<<RealObj(0), RealObj(0),
                                RealObj(page.width), RealObj(page.height)>>))
        r0 == Dictionary_new
        r1 == IF ~is_empty(page.xobject_dictionary)
              THEN Insert(r0, "XObject", DictObj(page.xobject_dictionary))
              ELSE r0
    IN IF ~is_empty(r1) THEN Insert(d4, "Resources", DictObj(r1)) ELSE d4

\* PDFPage::new and PDFPage::add_image: a page of the given size that shows
\* the images of refs (each image adds ref_name -> id to the XObject
\* dictionary).
PDFPage(width, height, refs) ==
    [width |-> width, height |-> height,
     xobject_dictionary |->
        [n \in { r.ref_name : r \in refs } |->
            RefObj((CHOOSE r \in refs : r.ref_name = n).id)]]

PageSizes == { <<600, 900>>, <<1200, 900>> }
ContentLens == { 11 }
PageInputs == { PDFPage(sz[1], sz[2], refs) :
                    sz \in PageSizes, refs \in SUBSET image_refs }

-----------------------------------------------------------------------------
(* lib.rs: the operations of an open writer *)

\* The writer right after DocumentWriter::stream_to_file.
WriterInit ==
    /\ file = stream_to_file.file
    /\ id_generator = stream_to_file.id_generator
    /\ written_objects = stream_to_file.written_objects
    /\ pages_root_id = stream_to_file.pages_root_id
    /\ pages = stream_to_file.pages
    /\ writer_state = "Open"
    /\ image_refs = {}
    /\ returned = [op |-> "stream_to_file"]

writerVars == <<file, id_generator, written_objects, pages_root_id, pages,
                writer_state, image_refs, returned>>
callVars == <<input, output>>

Init ==
    /\ WriterInit
    /\ input = Unused /\ output = Unused
    /\ volume = Unused
    /\ pdf_page = Unused

SetWriter(w) ==
    /\ file' = w.file
    /\ id_generator' = w.id_generator
    /\ written_objects' = w.written_objects
    /\ pages_root_id' = w.pages_root_id
    /\ pages' = w.pages

\* DocumentWriter::add_image
add_image(w, image) ==
    LET g == GeneratorNext(w.id_generator, 0)
        image_id == g.id
        image_ref == ref_from_image(image_id, image)
        image_stream == make_image_stream(image)
    IN [w |-> write_object_with_ref([w EXCEPT !.id_generator = g.gen],
                                    image_id, image_stream),
        ref |-> image_ref]

\* add_page that leaves the content stream unwritten.
add_page_no_content(w, page, content_len) ==
    LET g == GeneratorNext(w.id_generator, 0)
        page_id == g.id
        page_ref == ref_from_page(page_id, page)
        c == GeneratorNext(g.gen, 0)
        page_dictionary ==
            make_page_dictionary(w.pages_root_id, page, c.id)
        w2 == write_object_with_ref([w EXCEPT !.id_generator = c.gen],
                                    page_id, DictObj(page_dictionary))
    IN [w |-> [w2 EXCEPT !.pages = Append(@, page_ref)],
        ref |-> page_ref]

\* DocumentWriter::add_page
add_page(w, page, content_len) ==
    LET g == GeneratorNext(w.id_generator, 0)
        page_id == g.id
        page_ref == ref_from_page(page_id, page)
        c == write_object_ref([w EXCEPT !.id_generator = g.gen],
                              make_content_stream(content_len))
        page_dictionary ==
            make_page_dictionary(w.pages_root_id, page, c.id)
        w2 == write_object_with_ref(c.w, page_id, DictObj(page_dictionary))
    IN [w |-> [w2 EXCEPT !.pages = Append(@, page_ref)],
        ref |-> page_ref]

\* A writer that stays usable after finish_writing.
CanUse_always == writer_state \in {"Open", "Closed"}

\* &mut self: the writer can be used only while the caller still owns it.
CanUse == writer_state = "Open"

AddImage ==
    /\ CanUse
    /\ id_generator.next_id + 1 <= MaxObjectNum
    /\ \E image \in ImageInputs :
          \E r \in { add_image(Writer, image) } :
             /\ SetWriter(r.w)
             /\ image_refs' = image_refs \cup {r.ref}
             /\ returned' = [op |-> "add_image", ref |-> r.ref]
    /\ UNCHANGED <<writer_state, input, output, volume, pdf_page>>

AddPage ==
    /\ CanUse
    /\ id_generator.next_id + 2 <= MaxObjectNum
    /\ \E page \in PageInputs, content_len \in ContentLens :
          \E r \in { add_page(Writer, page, content_len) } :
             /\ SetWriter(r.w)
             /\ returned' = [op |-> "add_page", ref |-> r.ref]
    /\ UNCHANGED <<writer_state, image_refs, input, output, volume, pdf_page>>

-----------------------------------------------------------------------------
(* lib.rs: finish_writing and what it calls *)

\* OutlineItem::new and add_child: a tree of items, each with a name (its
\* code points), a target page and an ordered list of children.
OutlineItem(name, page, children) ==
    [name |-> name, page |-> page, children |-> children]

RECURSIVE Forests(_, _, _)
\* Every forest of exactly n items, all named name and aimed at page.
Forests(n, name, page) ==
    IF n = 0 THEN { <<>> }
    ELSE UNION { { <<OutlineItem(name, page, c)>> \o rest :
                      c \in Forests(k, name, page),
                      rest \in Forests(n - 1 - k, name, page) } :
                 k \in 0 .. (n - 1) }

\* "Ch(1)": a title with bytes that the string writer must escape.
ChapterTitle == <<67, 104, 40, 49, 41>>

\* The outlines a caller can hand over: items need a PageRef, which only
\* add_page gives out.
OutlineInputs ==
    { <<>> } \cup
    UNION { Forests(n, ChapterTitle, pages[p]) :
                n \in 1 .. MaxOutlineItems, p \in DOMAIN pages }

\* DocumentInfo::new, with_title, with_author
DocumentInfoInputs ==
    { [title |-> None, author |-> None],
      [title |-> Some(<<77, 26412>>), author |-> Some(<<65>>)] }

\* DocumentInfo::into_dictionary
into_dictionary(info) ==
    LET d1 == Insert(Dictionary_new, "Title", StrFromOption(info.title))
    IN Insert(d1, "Author", StrFromOption(info.author))

RECURSIVE TakeIds(_, _)
\* repeat_with(|| id_generator.next(0)).take(n): n fresh ids, in order.
TakeIds(generator, n) ==
    IF n = 0 THEN [ids |-> <<>>, gen |-> generator]
    ELSE LET g == GeneratorNext(generator, 0)
             r == TakeIds(g.gen, n - 1)
         IN [ids |-> <<g.id>> \o r.ids, gen |-> r.gen]

\* An item dictionary whose Next refers to the item itself.
outline_item_dictionary_next_self(outline_item, parent_id, outline_ids, i) ==
    LET max_index == Len(outline_ids)
        d1 == Insert(Dictionary_new, "Title", StrObj(outline_item.name))
        d2 == Insert(d1, "Parent", RefObj(parent_id))
        d3 == IF i > 1 THEN Insert(d2, "Prev", RefObj(outline_ids[i - 1]))
              ELSE d2
        d4 == IF i < max_index
              THEN Insert(d3, "Next", RefObj(outline_ids[i]))
              ELSE d3
        dest_array == <<RefObj(outline_item.page.id), NameObj("XYZ"),
                        IntObj(0), RealObj(outline_item.page.height), Null>>
    IN Insert(d4, "Dest", ArrayObj(dest_array))

\* The part of an outline item's dictionary that is built before its
\* children are written.
outline_item_dictionary(outline_item, parent_id, outline_ids, i) ==
    LET max_index == Len(outline_ids)
        d1 == Insert(Dictionary_new, "Title", StrObj(outline_item.name))
        d2 == Insert(d1, "Parent", RefObj(parent_id))
        d3 == IF i > 1 THEN Insert(d2, "Prev", RefObj(outline_ids[i - 1]))
              ELSE d2
        d4 == IF i < max_index
              THEN Insert(d3, "Next", RefObj(outline_ids[i + 1]))
              ELSE d3
        dest_array == <<RefObj(outline_item.page.id), NameObj("XYZ"),
                        IntObj(0), RealObj(outline_item.page.height), Null>>
    IN Insert(d4, "Dest", ArrayObj(dest_array))

\* The children's entries with a positive Count (an open item).
outline_children_entries_open(d, child_ids) ==
    IF Len(child_ids) > 0
    THEN LET d1 == Insert(d, "First", RefObj(child_ids[1]))
             d2 == Insert(d1, "Last", RefObj(child_ids[Len(child_ids)]))
         IN Insert(d2, "Count", IntObj(Len(child_ids)))
    ELSE d

\* The entries an item gets for its children.
outline_children_entries(d, child_ids) ==
    IF Len(child_ids) > 0
    THEN LET d1 == Insert(d, "First", RefObj(child_ids[1]))
             d2 == Insert(d1, "Last", RefObj(child_ids[Len(child_ids)]))
         IN Insert(d2, "Count", IntObj(-(Len(child_ids))))
    ELSE d

RECURSIVE write_outline_tree(_, _, _)
RECURSIVE write_outline_items(_, _, _, _, _)
\* The loop of write_outline_tree, from item i on.
write_outline_items(w, parent_id, outline_tree, outline_ids, i) ==
    IF i > Len(outline_tree) THEN w
    ELSE LET outline_item == outline_tree[i]
             item_dictionary ==
                 outline_item_dictionary(outline_item, parent_id,
                                         outline_ids, i)
             item_id == outline_ids[i]
             sub == write_outline_tree(w, item_id, outline_item.children)
             full == outline_children_entries(item_dictionary, sub.ids)
             w2 == write_object_with_ref(sub.w, item_id, DictObj(full))
         IN write_outline_items(w2, parent_id, outline_tree, outline_ids,
                                i + 1)

\* DocumentWriter::write_outline_tree
write_outline_tree(w, parent_id, outline_tree) ==
    LET t == TakeIds(w.id_generator, Len(outline_tree))
        w1 == [w EXCEPT !.id_generator = t.gen]
    IN [w |-> IF Len(t.ids) # 0
              THEN write_outline_items(w1, parent_id, outline_tree, t.ids, 1)
              ELSE w1,
        ids |-> t.ids]

RECURSIVE InsertSorted(_, _)
InsertSorted(sorted, wo) ==
    IF sorted = <<>> THEN <<wo>>
    ELSE IF IdLess(wo.id, Head(sorted).id)
         THEN <<wo>> \o sorted
         ELSE <<Head(sorted)>> \o InsertSorted(Tail(sorted), wo)

RECURSIVE sort_by_id(_)
\* written_objects.sort_by(|a, b| a.id.cmp(&b.id)): a stable sort by id.
sort_by_id(objs) ==
    IF objs = <<>> THEN <<>>
    ELSE InsertSorted(sort_by_id(SubSeq(objs, 1, Len(objs) - 1)),
                      objs[Len(objs)])

\* The run test comparing order instead of adjacency.
IsAdjacent_ordered(last_object, written_object) ==
    object_num(last_object.id) <= object_num(written_object.id) - 1

\* The test that puts an entry into the run of the entry before it. (The
\* u32 subtraction is reached only for an entry that follows another in
\* sorted order, so never for object number 0.)
IsAdjacent(last_object, written_object) ==
    object_num(last_object.id) = object_num(written_object.id) - 1

RECURSIVE adjacent_object_lists(_, _)
\* The grouping loop of write_xref_table: lists is the runs built so far.
adjacent_object_lists(lists, objs) ==
    IF objs = <<>> THEN lists
    ELSE LET written_object == Head(objs)
             n == Len(lists)
         IN IF n > 0 /\ IsAdjacent(lists[n][Len(lists[n])], written_object)
            THEN adjacent_object_lists(
                     [lists EXCEPT ![n] = Append(@, written_object)],
                     Tail(objs))
            ELSE adjacent_object_lists(Append(lists, <<written_object>>),
                                       Tail(objs))

\* The widths of "{:010}" and "{:05}".
OffsetWidth == 10
GenWidth == 5
PadLen(n, width) == IF Digits(n) > width THEN Digits(n) ELSE width

\* WrittenObject::write_xref_line: the line, or ByteIndexTooLarge.
write_xref_line(wo) ==
    IF PadLen(wo.byte_offset, OffsetWidth) > OffsetWidth
    THEN [ok |-> FALSE, chunks |-> <<>>]
    ELSE [ok |-> TRUE,
          chunks |-> << [k |-> "xrefline", offset |-> wo.byte_offset,
                         gen |-> generation_num(wo.id), free |-> wo.is_free,
                         len |-> OffsetWidth + 1
                                 + PadLen(generation_num(wo.id), GenWidth)
                                 + 1 + 1 + 2] >>]

\* "{first} {count}\n"
SubsectionChunk(first, count) ==
    [k |-> "subsection", first |-> first, count |-> count,
     len |-> Digits(first) + 1 + Digits(count) + 1]

RECURSIVE write_xref_lines(_, _)
\* The lines of one run, up to the first that fails.
write_xref_lines(f, objs) ==
    IF objs = <<>> THEN [ok |-> TRUE, file |-> f]
    ELSE LET l == write_xref_line(Head(objs))
         IN IF l.ok THEN write_xref_lines(f \o l.chunks, Tail(objs))
            ELSE [ok |-> FALSE, file |-> f]

RECURSIVE write_xref_sections(_, _)
write_xref_sections(f, lists) ==
    IF lists = <<>> THEN [ok |-> TRUE, file |-> f]
    ELSE LET adjacent_objects == Head(lists)
             start_object_num == object_num(adjacent_objects[1].id)
             f1 == Append(f, SubsectionChunk(start_object_num,
                                             Len(adjacent_objects)))
             r == write_xref_lines(f1, adjacent_objects)
         IN IF r.ok THEN write_xref_sections(r.file, Tail(lists)) ELSE r

\* DocumentWriter::write_xref_table: "\nxref\n", the ledger sorted in place,
\* then one subsection per run.
write_xref_table(w) ==
    LET f1 == w.file \o <<NewlineChunk, [k |-> "xref", len |-> 5]>>
        sorted == sort_by_id(w.written_objects)
        lists == adjacent_object_lists(<<>>, sorted)
        r == write_xref_sections(f1, lists)
    IN [ok |-> r.ok,
        w |-> [w EXCEPT !.file = r.file, !.written_objects = sorted]]

\* Size taken from the id counter instead of the ledger.
TrailerSize_counter(w) == w.id_generator.next_id

\* The value of the trailer's Size entry.
TrailerSize(w) == Len(w.written_objects)

\* DocumentWriter::write_trailer: "\ntrailer\n" and the dictionary.
write_trailer(w, root_id, info_id) ==
    LET d1 == Insert(Dictionary_new, "Size", IntObj(TrailerSize(w)))
        d2 == Insert(d1, "Root", RefObj(root_id))
        trailer == Insert(d2, "Info", RefObj(info_id))
    IN [w EXCEPT !.file =
            @ \o <<NewlineChunk,
                   [k |-> "trailer", body |-> DictObj(trailer),
                    len |-> 8 + ObjLen(DictObj(trailer))]>>]

\* The page tree with Count one too many (the root counted as a node).
pages_dictionary_miscount(page_refs) ==
    LET d1 == Insert(Dictionary_new, "Type", NameObj("Pages"))
        d2 == Insert(d1, "Count", IntObj(Len(page_refs) + 1))
        kids == [i \in DOMAIN page_refs |-> RefObj(page_refs[i].id)]
    IN Insert(d2, "Kids", ArrayObj(kids))

\* The page-tree dictionary of finish_writing.
pages_dictionary(page_refs) ==
    LET d1 == Insert(Dictionary_new, "Type", NameObj("Pages"))
        d2 == Insert(d1, "Count", IntObj(Len(page_refs)))
        kids == [i \in DOMAIN page_refs |-> RefObj(page_refs[i].id)]
    IN Insert(d2, "Kids", ArrayObj(kids))

\* The catalog of finish_writing.
catalog_dictionary(root_id, outline_dictionary_ref) ==
    LET d1 == Insert(Dictionary_new, "Type", NameObj("Catalog"))
        d2 == Insert(d1, "Pages", RefObj(root_id))
    IN Insert(d2, "Outlines", RefFromOption(outline_dictionary_ref))

\* DocumentWriter::finish_writing
finish_writing(w, outline_tree, document_info) ==
    LET w1 == write_object_with_ref(w, w.pages_root_id,
                                    DictObj(pages_dictionary(w.pages)))
        g == GeneratorNext(w1.id_generator, 0)
        outline_root_id == g.id
        o == write_outline_tree([w1 EXCEPT !.id_generator = g.gen],
                                outline_root_id, outline_tree)
        outline_ids == o.ids
        outline_dictionary ==
            LET d1 == Insert(Dictionary_new, "Type", NameObj("Outlines"))
                d2 == Insert(d1, "First", RefObj(outline_ids[1]))
            IN Insert(d2, "Last", RefObj(outline_ids[Len(outline_ids)]))
        w2 == IF Len(outline_ids) = 0 THEN o.w
              ELSE write_object_with_ref(o.w, outline_root_id,
                                         DictObj(outline_dictionary))
        outline_dictionary_ref ==
            IF Len(outline_ids) = 0 THEN None ELSE Some(outline_root_id)
        c == write_object_ref(w2,
                 DictObj(catalog_dictionary(w.pages_root_id,
                                            outline_dictionary_ref)))
        i == write_object_ref(c.w, DictObj(into_dictionary(document_info)))
        xref_table_start == file_position(i.w.file)
        x == write_xref_table(i.w)
        w3 == write_trailer(x.w, c.id, i.id)
        w4 == [w3 EXCEPT !.file =
                  @ \o <<NewlineChunk,
                         [k |-> "startxref", v |-> xref_table_start,
                          len |-> 10 + Digits(xref_table_start) + 1],
                         [k |-> "eof", len |-> 5]>>]
    IN IF x.ok
       THEN [ok |-> TRUE, w |-> w4, outline_root_id |-> outline_root_id,
             outline_ids |-> outline_ids]
       ELSE [ok |-> FALSE, w |-> x.w, outline_root_id |-> outline_root_id,
             outline_ids |-> outline_ids]

\* finish_writing(mut self, ..): the call takes the writer from the caller.
FinishWriting ==
    /\ CanUse
    /\ \E outline_tree \in OutlineInputs,
          document_info \in DocumentInfoInputs :
          \E r \in { finish_writing(Writer, outline_tree, document_info) } :
             /\ SetWriter(r.w)
             /\ returned' = [op |-> "finish_writing", ok |-> r.ok,
                             outline_tree |-> outline_tree,
                             outline_root_id |-> r.outline_root_id,
                             outline_ids |-> r.outline_ids]
    /\ writer_state' = "Closed"
    /\ UNCHANGED <<image_refs, input, output, volume, pdf_page>>

Next == AddImage \/ AddPage \/ FinishWriting

Spec == Init /\ [][Next]_vars

-----------------------------------------------------------------------------
(* Reading the file back *)

ObjIndices == { i \in DOMAIN file : file[i].k = "obj" }
XrefLineIndices == { i \in DOMAIN file : file[i].k = "xrefline" }
SubsectionIndices == { i \in DOMAIN file : file[i].k = "subsection" }
TrailerIndices == { i \in DOMAIN file : file[i].k = "trailer" }

SetMax(S) == CHOOSE x \in S : \A y \in S : y <= x
SetMin(S) == CHOOSE x \in S : \A y \in S : x <= y

\* The subsection header that xref line i stands under, and the object
\* number the line stands for: the header's first number plus its place.
SubsectionOf(i) == SetMax({ h \in SubsectionIndices : h < i })
ImpliedNum(i) == file[SubsectionOf(i)].first + (i - SubsectionOf(i) - 1)
LinesOf(h) == { i \in XrefLineIndices : SubsectionOf(i) = h }

\* The dictionary written under id (the body of its obj chunk).
IsWritten(id) == \E i \in ObjIndices : file[i].id = id
BodyOf(id) == file[CHOOSE i \in ObjIndices : file[i].id = id].body
IsDict(o) == o.t = "Dictionary"
HasType(o, name) ==
    /\ IsDict(o)
    /\ "Type" \in DOMAIN o.v
    /\ o.v["Type"] = NameObj(name)

TrailerDict == file[CHOOSE i \in TrailerIndices : TRUE].body.v

Finished == writer_state = "Closed" /\ returned.ok

-----------------------------------------------------------------------------
(* Claims *)

\* C1: in every state, each in-use ledger entry's byte_offset is the byte
\* position at which the "{number} {generation} obj" text of that object
\* begins in the file, right after the separating newline; and once the xref
\* table is written, the offset printed in each in-use line is the position
\* of the object that the line stands for.
C1_OffsetsLocateObjects ==
    /\ \A j \in DOMAIN written_objects :
          ~written_objects[j].is_free =>
             \E i \in ObjIndices :
                /\ file[i].id = written_objects[j].id
                /\ ChunkStart(file, i) = written_objects[j].byte_offset
                /\ file[i - 1].k = "nl"
    /\ \A i \in XrefLineIndices :
          ~file[i].free =>
             \E o \in ObjIndices :
                /\ file[o].id = <<ImpliedNum(i), file[i].gen>>
                /\ ChunkStart(file, o) = file[i].offset

\* C1 witness: a finished document holding an image, a page and an outline.
C1_Witness ==
    /\ Finished
    /\ image_refs # {}
    /\ Len(pages) >= 1
    /\ Len(returned.outline_tree) >= 1
    /\ \E j \in DOMAIN written_objects : written_objects[j].byte_offset > 500

\* C2: after finish_writing the number of xref lines, the sum of the
\* subsection counts, the trailer's Size and the number of objects in the
\* file plus one (the free head) are all the same number.
C2_XrefCountIsSize ==
    Finished =>
       /\ Cardinality(TrailerIndices) = 1
       /\ TrailerDict["Size"] = IntObj(Cardinality(XrefLineIndices))
       /\ Cardinality(XrefLineIndices) = Cardinality(ObjIndices) + 1
       /\ SumSeq([n \in 1 .. Cardinality(SubsectionIndices) |->
                    file[SetToSeq(SubsectionIndices)[n]].count])
             = Cardinality(XrefLineIndices)

\* C2 witness: a finished document with nothing in it (no image, no page, no
\* outline item), the smallest case the claim names.
C2_Witness ==
    /\ Finished
    /\ image_refs = {}
    /\ pages = <<>>
    /\ Cardinality(XrefLineIndices) = 4

\* C3: the xref table is the ledger, sorted by object number and cut into
\* maximal runs: the k-th line under a header "{first} {count}" is the ledger
\* entry numbered first + k, count is the number of lines under the header,
\* a subsection never starts at the number right after the one before it
\* ends, and each ledger entry has exactly one line.
C3_XrefSubsections ==
    Finished =>
       /\ \A j \in 1 .. (Len(written_objects) - 1) :
             IdLess(written_objects[j].id, written_objects[j + 1].id)
       /\ \A h \in SubsectionIndices :
             /\ file[h].count = Cardinality(LinesOf(h))
             /\ file[h].count >= 1
             /\ LinesOf(h) = (h + 1) .. (h + file[h].count)
       /\ \A i \in XrefLineIndices :
             \E j \in DOMAIN written_objects :
                /\ object_num(written_objects[j].id) = ImpliedNum(i)
                /\ generation_num(written_objects[j].id) = file[i].gen
                /\ written_objects[j].byte_offset = file[i].offset
                /\ written_objects[j].is_free = file[i].free
       /\ \A j \in DOMAIN written_objects :
             Cardinality({ i \in XrefLineIndices :
                 ImpliedNum(i) = object_num(written_objects[j].id) }) = 1
       /\ \A h1, h2 \in SubsectionIndices :
             h1 < h2 => file[h2].first > file[h1].first + file[h1].count

\* C3 witness: a table of two subsections, one of them longer than a line.
C3_Witness ==
    /\ Finished
    /\ Cardinality(SubsectionIndices) = 2
    /\ \E h \in SubsectionIndices : file[h].count > 2

\* C10: the ledger always holds exactly one free entry, object 0 with
\* generation 65535 and offset 0, and every other entry is in use with
\* generation 0; in the xref table the free entry is the first line of the
\* first subsection and the only line flagged f.
C10_OneFreeEntry ==
    /\ Cardinality({ j \in DOMAIN written_objects :
                        written_objects[j].is_free }) = 1
    /\ \A j \in DOMAIN written_objects :
          IF written_objects[j].is_free
          THEN /\ written_objects[j].id = <<0, 65535>>
               /\ written_objects[j].byte_offset = 0
          ELSE generation_num(written_objects[j].id) = 0
    /\ Finished =>
          LET h == SetMin(SubsectionIndices)
          IN /\ file[h].first = 0
             /\ file[h + 1] = [k |-> "xrefline", offset |-> 0, gen |-> 65535,
                               free |-> TRUE, len |-> 20]
             /\ \A i \in XrefLineIndices : file[i].free => i = h + 1

\* C10 witness: a finished document whose table has lines of both kinds.
C10_Witness ==
    /\ Finished
    /\ Len(pages) = 2
    /\ \E i \in XrefLineIndices : file[i].free
    /\ Cardinality({ i \in XrefLineIndices : ~file[i].free }) >= 7

-----------------------------------------------------------------------------
(* Claims about the operations in time *)

IsStep(op) == returned' # returned /\ returned'.op = op

\* The chunks that a step added to the file.
Added == SubSeq(file', Len(file) + 1, Len(file'))
IsPrefix(a, b) == Len(a) <= Len(b) /\ SubSeq(b, 1, Len(a)) = a

\* Every object is written before any part of the xref table and trailer.
XrefAfterObjects ==
    \A i \in ObjIndices :
       \A x \in DOMAIN file :
          file[x].k \in {"xref", "subsection", "xrefline", "trailer",
                         "startxref", "eof"} => i < x

\* C4: a writer goes from Open to Closed and never back: from the moment
\* finish_writing was called nothing changes the ledger, the page list or
\* the file (so no add_image, no add_page and no second finish_writing), and
\* in the finished file the xref table and the trailer come after the last
\* object.
C4_OpenThenClosed ==
    [][ /\ writer_state = "Closed" =>
              UNCHANGED <<written_objects, pages, file, writer_state>>
        /\ IsStep("finish_writing") =>
              /\ writer_state = "Open"
              /\ writer_state' = "Closed"
        /\ writer_state' = "Closed" => XrefAfterObjects' ]_vars

\* C4 witness: a document with pages and images that has been finished.
C4_Witness ==
    /\ writer_state = "Closed"
    /\ returned.op = "finish_writing"
    /\ Len(pages) >= 1
    /\ Cardinality(image_refs) >= 2

IsImageStream(o) ==
    /\ o.t = "Stream"
    /\ "Subtype" \in DOMAIN o.d
    /\ o.d["Subtype"] = NameObj("Image")

IsContentStream(o) ==
    /\ o.t = "Stream"
    /\ "Subtype" \notin DOMAIN o.d

\* The kinds of object that finish_writing itself writes.
IsFinishObject(o) ==
    /\ IsDict(o)
    /\ \/ HasType(o, "Pages")
       \/ HasType(o, "Outlines")
       \/ HasType(o, "Catalog")
       \/ {"Title", "Parent", "Dest"} \subseteq DOMAIN o.v
       \/ DOMAIN o.v = {"Title", "Author"}

LedgerIds(objs) == { objs[j].id : j \in DOMAIN objs }

\* C5: add_image appends exactly one object to the file, the image stream
\* under the id of the ImageRef it returns, and one ledger entry; add_page
\* appends exactly two, the content stream and then the page dictionary
\* under the id of the PageRef it returns, and two ledger entries; so while
\* the writer is open every id issued, but the reserved page-tree id, is in
\* the ledger, and finish_writing writes only the page tree, the outline,
\* the catalog and the info dictionary.
C5_WrittenBeforeReturn ==
    [][ /\ IsStep("add_image") =>
              /\ IsPrefix(file, file')
              /\ Len(Added) = 2
              /\ Added[1].k = "nl"
              /\ Added[2].k = "obj"
              /\ Added[2].id = returned'.ref.id
              /\ IsImageStream(Added[2].body)
              /\ IsPrefix(written_objects, written_objects')
              /\ Len(written_objects') = Len(written_objects) + 1
              /\ written_objects'[Len(written_objects')].id = returned'.ref.id
        /\ IsStep("add_page") =>
              /\ IsPrefix(file, file')
              /\ Len(Added) = 4
              /\ Added[1].k = "nl"
              /\ Added[2].k = "obj"
              /\ IsContentStream(Added[2].body)
              /\ Added[3].k = "nl"
              /\ Added[4].k = "obj"
              /\ Added[4].id = returned'.ref.id
              /\ HasType(Added[4].body, "Page")
              /\ Added[4].body.v["Contents"] = RefObj(Added[2].id)
              /\ IsPrefix(written_objects, written_objects')
              /\ Len(written_objects') = Len(written_objects) + 2
              /\ written_objects'[Len(written_objects') - 1].id = Added[2].id
              /\ written_objects'[Len(written_objects')].id = returned'.ref.id
        /\ writer_state' = "Open" =>
              LedgerIds(written_objects')
                 = Range(id_generator'.issued) \ {pages_root_id'}
        /\ IsStep("finish_writing") =>
              /\ IsPrefix(file, file')
              /\ \A i \in DOMAIN Added :
                    Added[i].k = "obj" => IsFinishObject(Added[i].body) ]_vars

\* C5 witness: add_page has just returned, after an add_image.
C5_Witness ==
    /\ writer_state = "Open"
    /\ returned.op = "add_page"
    /\ image_refs # {}
    /\ Len(written_objects) >= 4

\* The ids of the page dictionaries in the file, in the order written.
PageObjects ==
    SelectSeq(file, LAMBDA c : c.k = "obj" /\ HasType(c.body, "Page"))

\* C6: the page-tree object has Kids equal to the ids of the pages that
\* add_page wrote and returned, in call order, without duplicates, and
\* Count equal to their number; every page's Parent is the page-tree id,
\* object 1, reserved when the writer was opened.
C6_PageTree ==
    /\ pages_root_id = <<1, 0>>
    /\ \A i \in DOMAIN PageObjects :
          PageObjects[i].body.v["Parent"] = RefObj(pages_root_id)
    /\ returned.op = "add_page" =>
          PageObjects[Len(PageObjects)].id = returned.ref.id
    /\ Finished =>
          /\ Cardinality({ i \in ObjIndices : file[i].id = pages_root_id }) = 1
          /\ HasType(BodyOf(pages_root_id), "Pages")
          /\ LET root == BodyOf(pages_root_id).v
                 kids == root["Kids"].v
             IN /\ kids = [i \in DOMAIN PageObjects |->
                              RefObj(PageObjects[i].id)]
                /\ root["Count"] = IntObj(Len(kids))
                /\ \A a, b \in DOMAIN kids : a # b => kids[a] # kids[b]

\* C6 witness: a finished document of two pages.
C6_Witness ==
    /\ Finished
    /\ Len(PageObjects) = 2
    /\ PageObjects[1].id # PageObjects[2].id

\* The catalog: the object that the trailer's Root names.
CatalogDict == BodyOf(TrailerDict["Root"].v).v

\* C7: with an empty outline forest the catalog has no Outlines key at all
\* and no Outlines dictionary is written; with a non-empty forest the
\* catalog's Outlines entry refers to the written outline root.
C7_NoOutlinesKeyWhenEmpty ==
    Finished =>
       IF returned.outline_tree = <<>>
       THEN /\ "Outlines" \notin DOMAIN CatalogDict
            /\ \A i \in ObjIndices : ~HasType(file[i].body, "Outlines")
       ELSE /\ "Outlines" \in DOMAIN CatalogDict
            /\ CatalogDict["Outlines"].t = "Ref"
            /\ IsWritten(CatalogDict["Outlines"].v)
            /\ HasType(BodyOf(CatalogDict["Outlines"].v), "Outlines")

\* VolumeBuilder::save (lib_pdf): the link keys it sets on entry i (from 0)
\* of a flat outline of len entries.
VolumeBuilder_save_links(len, i) ==
    IF len > 1
    THEN IF i = 0 THEN {"Next"}
         ELSE IF i = len - 1 THEN {"Prev"}
         ELSE {"Prev", "Next"}
    ELSE {}

RECURSIVE OutlineLinked(_, _)
\* The items of tree are written under the ids first, first + 1, .. and carry
\* the keys of the claim; first is read from the parent's First entry.
OutlineLinked(tree, first) ==
    \A i \in DOMAIN tree :
       /\ IsWritten(<<first + i - 1, 0>>)
       /\ LET d == BodyOf(<<first + i - 1, 0>>).v
              c == tree[i].children
          IN /\ ("Prev" \in DOMAIN d) <=> (i > 1)
             /\ ("Next" \in DOMAIN d) <=> (i < Len(tree))
             /\ IF Len(c) > 0
                THEN /\ {"Count", "First", "Last"} \subseteq DOMAIN d
                     /\ d["Count"] = IntObj(-(Len(c)))
                     /\ OutlineLinked(c, object_num(d["First"].v))
                ELSE {"Count", "First", "Last"} \cap DOMAIN d = {}

\* C8: in every sibling list of k outline items the first has no Prev, the
\* last has no Next and every other item has both (one item alone has
\* neither); an item with c > 0 children has Count = -c, and an item without
\* children has no Count, First or Last. VolumeBuilder::save links its flat
\* list the same way.
C8_OutlineLinks ==
    /\ (Finished /\ returned.outline_tree # <<>>) =>
          OutlineLinked(returned.outline_tree,
              object_num(BodyOf(CatalogDict["Outlines"].v).v["First"].v))
    /\ \A len \in 1 .. (MaxOutlineItems + 1) :
          \A i \in 0 .. (len - 1) :
             VolumeBuilder_save_links(len, i)
                = { k \in {"Prev", "Next"} :
                      \/ k = "Prev" /\ i > 0
                      \/ k = "Next" /\ i < len - 1 }

\* C8 witness: an outline of two top-level items, the first with a child.
C8_Witness ==
    /\ Finished
    /\ Len(returned.outline_tree) = 2
    /\ Len(returned.outline_tree[1].children) = 1
    /\ Len(returned.outline_tree[2].children) = 0

\* C9: the allocator starts at object number 0 and each call hands out the
\* counter's value and moves it on by one: the i-th id issued has object
\* number i - 1, so no two ids share a number and numbers grow in the order
\* of allocation; every id the writer uses was issued, and no two ledger
\* entries share an object number.
C9_AllocatorUnique ==
    /\ id_generator.next_id = Len(id_generator.issued)
    /\ \A i \in DOMAIN id_generator.issued :
          object_num(id_generator.issued[i]) = i - 1
    /\ id_generator.issued[1] = <<0, U16Max>>
    /\ \A i \in DOMAIN id_generator.issued :
          i > 1 => generation_num(id_generator.issued[i]) = 0
    /\ LedgerIds(written_objects) \cup {pages_root_id}
          \cup { r.id : r \in image_refs } \cup { p.id : p \in Range(pages) }
          \subseteq Range(id_generator.issued)
    /\ \A a, b \in DOMAIN written_objects :
          a # b => object_num(written_objects[a].id)
                     # object_num(written_objects[b].id)

\* C9 witness: a finished document for which twelve ids were issued.
C9_Witness ==
    /\ Finished
    /\ Len(id_generator.issued) = 12
    /\ Len(returned.outline_tree) = 3

-----------------------------------------------------------------------------
(* The outline objects of a finished file *)

\* The places of the file where the object id is written, and the first.
WrittenAt(id) == { i \in ObjIndices : file[i].id = id }
PlaceOf(id) == SetMin(WrittenAt(id))
OutlineItemIndices ==
    { i \in ObjIndices : IsDict(file[i].body)
                           /\ "Dest" \in DOMAIN file[i].body.v }
RECURSIVE ItemCount(_)
ItemCount(tree) ==
    IF tree = <<>> THEN 0
    ELSE 1 + ItemCount(Head(tree).children) + ItemCount(Tail(tree))

RECURSIVE OutlineTreeLinked(_, _)
\* The sibling list tree hangs under the written object parent_id: First
\* and Last of the parent are the ends of a run of Len(tree) ids; the i-th
\* id of the run is written once, after all of its descendants, with Parent,
\* Prev and Next as the claim says; the ids of an item's children are all
\* greater than the ids of the item's siblings (they were handed out later,
\* while they are written earlier); and the same holds of every child list.
OutlineTreeLinked(tree, parent_id) ==
    LET p == BodyOf(parent_id).v
    IN IF tree = <<>> THEN {"First", "Last"} \cap DOMAIN p = {}
       ELSE /\ {"First", "Last"} \subseteq DOMAIN p
            /\ p["First"].t = "Ref" /\ p["Last"].t = "Ref"
            /\ LET first == object_num(p["First"].v)
                   id(i) == <<first + i - 1, 0>>
               IN /\ p["Last"] = RefObj(id(Len(tree)))
                  /\ \A i \in DOMAIN tree :
                        /\ Cardinality(WrittenAt(id(i))) = 1
                        /\ LET d == BodyOf(id(i)).v
                           IN /\ d["Parent"] = RefObj(parent_id)
                              /\ i > 1 => d["Prev"] = RefObj(id(i - 1))
                              /\ i < Len(tree) => d["Next"] = RefObj(id(i + 1))
                              /\ "First" \in DOMAIN d =>
                                    /\ object_num(d["First"].v)
                                          > object_num(id(Len(tree)))
                                    /\ PlaceOf(d["First"].v) < PlaceOf(id(i))
                                    /\ PlaceOf(d["Last"].v) < PlaceOf(id(i))
                        /\ i > 1 => PlaceOf(id(i - 1)) < PlaceOf(id(i))
                        /\ PlaceOf(id(i)) < PlaceOf(parent_id)
                        /\ OutlineTreeLinked(tree[i].children, id(i))

\* C23: in a finished file with a non-empty outline, every item at every
\* depth names its container as Parent (the outline root at the top), its
\* neighbours in the caller's order as Prev and Next, and its first and last
\* child as First and Last; the ids of siblings are handed out together,
\* before the ids of their descendants, every item of the forest is written
\* exactly once, and an item is written after all of its descendants.  With
\* an empty outline no item is written.
C23_OutlineTreeLinks ==
    Finished =>
       /\ Cardinality(OutlineItemIndices) = ItemCount(returned.outline_tree)
       /\ returned.outline_tree # <<>> =>
             /\ IsWritten(returned.outline_root_id)
             /\ OutlineTreeLinked(returned.outline_tree,
                                  returned.outline_root_id)

\* C23 witness: one top-level item with two children.
C23_Witness ==
    /\ Finished
    /\ Len(returned.outline_tree) = 1
    /\ Len(returned.outline_tree[1].children) = 2
    /\ Cardinality(OutlineItemIndices) = 3

RECURSIVE RefsIn(_)
\* The ids that the indirect references inside an object name.
RefsIn(o) ==
    CASE o.t = "Ref" -> { o.v }
      [] o.t = "Array" -> UNION { RefsIn(o.v[i]) : i \in DOMAIN o.v }
      [] o.t = "Dictionary" -> UNION { RefsIn(o.v[k]) : k \in DOMAIN o.v }
      [] o.t = "Stream" -> UNION { RefsIn(o.d[k]) : k \in DOMAIN o.d }
      [] OTHER -> {}

\* The references of the file (those of every object and of the trailer),
\* and the ids that the xref table lists as in use.
FileRefs ==
    UNION { RefsIn(file[i].body) : i \in ObjIndices \cup TrailerIndices }
InUseIds ==
    { <<ImpliedNum(i), file[i].gen>> :
        i \in { j \in XrefLineIndices : ~file[j].free } }

\* C27: in a finished file every indirect reference, in any object and in
\* the trailer, names an object that the xref table of the file lists as in
\* use; among them are the trailer's Root and Info, the catalog's Pages,
\* every page's Parent and Contents and the page tree's Kids.
C27_ReferencesResolve ==
    Finished =>
       /\ FileRefs \subseteq InUseIds
       /\ { TrailerDict["Root"].v, TrailerDict["Info"].v,
            CatalogDict["Pages"].v } \subseteq FileRefs
       /\ \A i \in DOMAIN PageObjects :
             /\ PageObjects[i].body.v["Contents"].v \in FileRefs
             /\ PageObjects[i].id \in FileRefs

\* C27 witness: a finished file with a page that shows an image and an
\* outline of two items.
C27_Witness ==
    /\ Finished
    /\ ItemCount(returned.outline_tree) = 2
    /\ \E i \in DOMAIN PageObjects :
          "Resources" \in DOMAIN PageObjects[i].body.v
    /\ Cardinality(FileRefs) >= 7

\* C28: in a finished file, whatever the outline, every id that the
\* allocator issued has exactly one ledger entry; the ledger's object
\* numbers are 0 .. Size - 1, the xref table is one subsection that starts
\* at 0, and Size is greater than every object number in the file.
C28_LedgerIsDense ==
    Finished =>
       /\ \A k \in DOMAIN id_generator.issued :
             Cardinality({ j \in DOMAIN written_objects :
                 written_objects[j].id = id_generator.issued[k] }) = 1
       /\ { object_num(written_objects[j].id) :
               j \in DOMAIN written_objects }
             = 0 .. (TrailerDict["Size"].v - 1)
       /\ Cardinality(SubsectionIndices) = 1
       /\ \A h \in SubsectionIndices : file[h].first = 0
       /\ \A i \in ObjIndices :
             object_num(file[i].id) < TrailerDict["Size"].v

-----------------------------------------------------------------------------
(* lib.rs, objects.rs: the bytes of the xref lines of one run *)

\* A byte offset is a u64.  Where the digits of an offset matter it is kept
\* as the decimal digits that "{}" prints for it, most significant first, so
\* that offsets of more than ten digits can be written down.
MaxOffsetDigits == 12

RECURSIVE DecimalDigits(_)
\* The digits "{}" prints for a non-negative integer.
DecimalDigits(n) ==
    IF n < 10 THEN <<n>> ELSE Append(DecimalDigits(n \div 10), n % 10)

\* "{:0width}": zeros in front up to the width; a number that is already as
\* wide or wider is printed whole.
ZeroPadded(digits, width) ==
    IF Len(digits) >= width THEN digits
    ELSE [i \in 1..(width - Len(digits)) |-> 0] \o digits

AsciiDigits(digits) == [i \in DOMAIN digits |-> 48 + digits[i]]

\* ObjectId::gen_string: "{:05}" of the u16 generation.
gen_string(id) == ZeroPadded(DecimalDigits(generation_num(id)), GenWidth)

\* write_xref_line without the length test.
write_xref_line_bytes_unchecked(wo) ==
    [ok |-> TRUE,
     bytes |-> AsciiDigits(ZeroPadded(wo.byte_offset, OffsetWidth)) \o <<32>>
               \o AsciiDigits(gen_string(wo.id)) \o <<32>>
               \o << IF wo.is_free THEN 102 ELSE 110 >> \o <<13, 10>>]

\* WrittenObject::write_xref_line, byte by byte:
\* "{:010} {:05} {f|n}\r\n", or ByteIndexTooLarge and nothing written.
write_xref_line_bytes(wo) ==
    LET byte_index_string == ZeroPadded(wo.byte_offset, OffsetWidth)
        gen_number == gen_string(wo.id)
        object_type == IF wo.is_free THEN 102 ELSE 110
    IN IF Len(byte_index_string) > OffsetWidth
       THEN [ok |-> FALSE, bytes |-> <<>>]
       ELSE [ok |-> TRUE,
             bytes |-> AsciiDigits(byte_index_string) \o <<32>>
                       \o AsciiDigits(gen_number) \o <<32>>
                       \o <<object_type>> \o <<13, 10>>]

RECURSIVE write_xref_run_bytes(_, _)
\* The inner loop of write_xref_table over one run of adjacent objects:
\* each line is written in turn and the first error ends the loop ("?").
write_xref_run_bytes(written, adjacent_objects) ==
    IF adjacent_objects = <<>> THEN [ok |-> TRUE, bytes |-> written]
    ELSE LET l == write_xref_line_bytes(Head(adjacent_objects))
         IN IF l.ok
            THEN write_xref_run_bytes(written \o l.bytes,
                                      Tail(adjacent_objects))
            ELSE [ok |-> FALSE, bytes |-> written]

\* The offsets tried: for each number of digits the smallest and the largest
\* offset with that many digits.
OffsetInputs ==
    { [i \in 1..n |-> IF i = 1 THEN 1 ELSE 0] : n \in 1..MaxOffsetDigits }
    \cup { [i \in 1..n |-> 9] : n \in 1..MaxOffsetDigits }
    \cup { <<0>> }

\* The generations tried: 0, a small one and u16::MAX.
GenerationInputs == { 0, 7, U16Max }

\* Runs of one or two adjacent ledger entries, numbered from 3.
XrefRunInputs ==
    { << [id |-> <<3, g>>, byte_offset |-> o, is_free |-> f] >> :
        o \in OffsetInputs, g \in GenerationInputs, f \in BOOLEAN }
    \cup
    { << [id |-> <<3, g>>, byte_offset |-> o, is_free |-> f],
         [id |-> <<4, 0>>, byte_offset |-> o2, is_free |-> FALSE] >> :
        o \in OffsetInputs, g \in GenerationInputs, f \in BOOLEAN,
        o2 \in OffsetInputs }

InitXrefRun ==
    /\ WriterInit
    /\ input \in XrefRunInputs
    /\ output = None
    /\ volume = Unused
    /\ pdf_page = Unused

WriteXrefRun ==
    /\ output = None
    /\ output' = Some(write_xref_run_bytes(<<>>, input))
    /\ UNCHANGED <<writerVars, input, volume, pdf_page>>

NextXrefRun == WriteXrefRun

SpecXrefRun == InitXrefRun /\ [][NextXrefRun]_vars

RECURSIVE DigitsValue(_)
\* The number a short sequence of decimal digits stands for.
DigitsValue(digits) ==
    IF digits = <<>> THEN 0
    ELSE 10 * DigitsValue(SubSeq(digits, 1, Len(digits) - 1))
         + digits[Len(digits)]

RECURSIVE StripZeros(_)
\* A digit sequence without its leading zeros (a lone 0 stays).
StripZeros(digits) ==
    IF Len(digits) > 1 /\ Head(digits) = 0 THEN StripZeros(Tail(digits))
    ELSE digits

IsDigitByte(b) == b \in 48..57
FromAscii(bytes) == [i \in DOMAIN bytes |-> bytes[i] - 48]

\* bytes is the 20-byte xref line of ledger entry wo.
IsXrefLineOf(bytes, wo) ==
    /\ Len(bytes) = 20
    /\ \A i \in 1..10 : IsDigitByte(bytes[i])
    /\ StripZeros(FromAscii(SubSeq(bytes, 1, 10))) = wo.byte_offset
    /\ bytes[11] = 32
    /\ \A i \in 12..16 : IsDigitByte(bytes[i])
    /\ DigitsValue(FromAscii(SubSeq(bytes, 12, 16))) = generation_num(wo.id)
    /\ bytes[17] = 32
    /\ bytes[18] = (IF wo.is_free THEN 102 ELSE 110)
    /\ bytes[19] = 13 /\ bytes[20] = 10

TooLarge(wo) == Len(wo.byte_offset) > 10

\* C11: the xref lines written for a run are 20 bytes each: the offset in
\* ten digits, a space, the generation in five digits, a space, f or n, CR
\* LF.  The run fails exactly when one of its offsets needs more than ten
\* digits; the lines before the first such entry are written, and nothing is
\* written for that entry (no longer line, no truncated offset) or after it.
C11_XrefLines20Bytes ==
    output # None =>
        LET objs == input
            out == output.v
            bad == { i \in DOMAIN objs : TooLarge(objs[i]) }
            n == IF bad = {} THEN Len(objs) ELSE SetMin(bad) - 1
        IN /\ out.ok = (bad = {})
           /\ Len(out.bytes) = 20 * n
           /\ \A i \in 1..n :
                 IsXrefLineOf(SubSeq(out.bytes, 20 * (i - 1) + 1, 20 * i),
                              objs[i])

\* A run whose first offset has ten digits and whose second has more: one
\* line is written and the call fails.
C11_Witness ==
    /\ output # None
    /\ Len(input) = 2
    /\ Len(input[1].byte_offset) = 10
    /\ TooLarge(input[2])
    /\ ~output.v.ok
    /\ Len(output.v.bytes) = 20

-----------------------------------------------------------------------------
(* The end of the file *)

XrefKeywordIndices == { i \in DOMAIN file : file[i].k = "xref" }
StartxrefIndices == { i \in DOMAIN file : file[i].k = "startxref" }

\* C12: once finish_writing has returned Ok, the number after startxref is
\* the byte offset of the xref keyword that opens the cross-reference table,
\* and %%EOF is the last thing in the file, after startxref and the trailer
\* dictionary.
C12_StartxrefAtXrefKeyword ==
    Finished =>
        /\ Cardinality(XrefKeywordIndices) = 1
        /\ Cardinality(StartxrefIndices) = 1
        /\ \A s \in StartxrefIndices, x \in XrefKeywordIndices,
              t \in TrailerIndices :
              /\ file[s].v = ChunkStart(file, x)
              /\ x < t /\ t < s /\ s + 1 = Len(file)
        /\ file[Len(file)].k = "eof"

-----------------------------------------------------------------------------
(* objects.rs: the bytes of a Name *)

\* The longest name tried, in characters.
MaxNameLen == 2

\* str::bytes: the UTF-8 bytes of one code point.
Utf8(cp) ==
    IF cp < 128 THEN <<cp>>
    ELSE IF cp < 2048 THEN <<192 + (cp \div 64), 128 + (cp % 64)>>
    ELSE IF cp < 65536
         THEN <<224 + (cp \div 4096), 128 + ((cp \div 64) % 64),
                128 + (cp % 64)>>
    ELSE <<240 + (cp \div 262144), 128 + ((cp \div 4096) % 64),
           128 + ((cp \div 64) % 64), 128 + (cp % 64)>>

\* The UTF-8 bytes of a string given as its code points.
Utf8Bytes(cps) == FlattenSeq([i \in DOMAIN cps |-> Utf8(cps[i])])

\* The delimiter characters of PDF: ( ) < > [ ] { } / %
DELIMITER_CHARS == { 40, 41, 60, 62, 91, 93, 123, 125, 47, 37 }

\* One upper-case hexadecimal digit as an ASCII byte.
HexChar(d) == IF d < 10 THEN 48 + d ELSE 55 + d

\* "{:X}" of a byte: its hexadecimal digits without padding.
UpperHex(byte) ==
    IF byte < 16 THEN <<HexChar(byte)>>
    ELSE <<HexChar(byte \div 16), HexChar(byte % 16)>>

\* Name::write_to: '/', then each byte as "#23" for '#', as itself when it
\* is printable and no delimiter, and as '#' and "{:X}" otherwise.
Name_write_to(name) ==
    LET bytes == Utf8Bytes(name.string)
    IN <<47>> \o
       FlattenSeq([i \in DOMAIN bytes |->
           IF bytes[i] = 35 THEN <<35, 50, 51>>
           ELSE IF (33 <= bytes[i] /\ bytes[i] <= 126)
                   /\ bytes[i] \notin DELIMITER_CHARS
                THEN <<bytes[i]>>
           ELSE <<35>> \o UpperHex(bytes[i])])

\* Name::new: the Name that wraps string.to_string(); nothing is looked at.
Name_new(string) == [string |-> string]

\* The characters tried in names: NUL, control characters on both sides of
\* 0x10, a space, '#', a delimiter, a digit, a letter, DEL and a character
\* outside ASCII.
NameChars == { 0, 1, 9, 15, 16, 32, 35, 40, 49, 65, 127, 233 }

RECURSIVE SeqsUpTo(_, _)
\* The sequences over S of length at most n.
SeqsUpTo(S, n) ==
    IF n = 0 THEN { <<>> }
    ELSE LET shorter == SeqsUpTo(S, n - 1)
         IN shorter \cup { Append(s, x) : s \in shorter, x \in S }

NameInputs == SeqsUpTo(NameChars, MaxNameLen)

InitName ==
    /\ WriterInit
    /\ input \in NameInputs
    /\ output = None
    /\ volume = Unused
    /\ pdf_page = Unused

WriteName ==
    /\ output = None
    /\ output' = Some(Name_write_to(Name_new(input)))
    /\ UNCHANGED <<writerVars, input, volume, pdf_page>>

NextName == WriteName

SpecName == InitName /\ [][NextName]_vars

IsHexChar(b) == b \in 48..57 \/ b \in 65..70 \/ b \in 97..102
HexValue(b) == IF b \in 48..57 THEN b - 48
               ELSE IF b \in 65..70 THEN b - 55 ELSE b - 87

RECURSIVE DecodeName(_)
\* Reading a name back: '#' and two hexadecimal digits stand for one byte,
\* every other byte stands for itself.
DecodeName(text) ==
    IF text = <<>> THEN <<>>
    ELSE IF /\ Head(text) = 35
            /\ Len(text) >= 3
            /\ IsHexChar(text[2]) /\ IsHexChar(text[3])
         THEN <<16 * HexValue(text[2]) + HexValue(text[3])>>
              \o DecodeName(SubSeq(text, 4, Len(text)))
    ELSE <<Head(text)>> \o DecodeName(Tail(text))

\* How the claim says one byte is written.
IsLiteralNameByte(b) ==
    33 <= b /\ b <= 126 /\ b # 35 /\ b \notin DELIMITER_CHARS
TwoDigitEscape(b) == <<35, HexChar(b \div 16), HexChar(b % 16)>>

\* C13: for every name, reading the written form back gives the name's
\* bytes; the written form is '/' and then, byte by byte, the byte itself
\* when it is in 0x21..0x7E and neither a delimiter nor '#', and '#' with
\* exactly two hexadecimal digits otherwise.
C13_NameRoundTrip ==
    output # None =>
        LET bytes == Utf8Bytes(input)
        IN /\ Head(output.v) = 47
           /\ Tail(output.v) =
                 FlattenSeq([i \in DOMAIN bytes |->
                     IF IsLiteralNameByte(bytes[i]) THEN <<bytes[i]>>
                     ELSE TwoDigitEscape(bytes[i])])
           /\ DecodeName(Tail(output.v)) = bytes

\* C24: no name that holds a NUL byte is ever written: Name::new stops the
\* program on such a text, so whenever a name has been serialized its bytes
\* are all different from 0.
C24_NoNulNameWritten ==
    output # None => 0 \notin Range(Utf8Bytes(input))

-----------------------------------------------------------------------------
(* objects.rs, utils.rs: the bytes of a string object *)

\* The longest string tried, in characters.
MaxStrLen == 2

\* The characters tried in strings: '(' ')' '\' and a letter; then, outside
\* ASCII, U+00E9, U+0128 and U+5C29 (whose UTF-16 bytes hold 0x28, 0x5C and
\* 0x29) and U+1F600 (a surrogate pair).
StrChars == { 40, 41, 92, 65, 233, 296, 23593, 128512 }

StrInputs == SeqsUpTo(StrChars, MaxStrLen)

InitStr ==
    /\ WriterInit
    /\ input \in StrInputs
    /\ output = None
    /\ volume = Unused
    /\ pdf_page = Unused

\* Object::write_to for Object::Str
WriteStr ==
    /\ output = None
    /\ output' = Some(StrBytes(input))
    /\ UNCHANGED <<writerVars, input, volume, pdf_page>>

NextStr == WriteStr

SpecStr == InitStr /\ [][NextStr]_vars

RECURSIVE WellEscaped(_)
\* Every '(' ')' and '\' of the text stands right after a backslash of its
\* own.
WellEscaped(text) ==
    IF text = <<>> THEN TRUE
    ELSE IF Head(text) = 92
         THEN /\ Len(text) >= 2
              /\ text[2] \in {40, 41, 92}
              /\ WellEscaped(SubSeq(text, 3, Len(text)))
    ELSE Head(text) \notin {40, 41} /\ WellEscaped(Tail(text))

RECURSIVE Unescape(_)
\* The text with each escaping backslash taken out.
Unescape(text) ==
    IF text = <<>> THEN <<>>
    ELSE IF Head(text) = 92 /\ Len(text) >= 2
         THEN <<text[2]>> \o Unescape(SubSeq(text, 3, Len(text)))
    ELSE <<Head(text)>> \o Unescape(Tail(text))

RECURSIVE DecodeUtf16BE(_)
\* The code points of big-endian UTF-16 bytes.
DecodeUtf16BE(bytes) ==
    IF Len(bytes) < 2 THEN <<>>
    ELSE LET unit == 256 * bytes[1] + bytes[2]
         IN IF unit \in 55296..56319 /\ Len(bytes) >= 4
            THEN <<65536 + 1024 * (unit - 55296)
                         + (256 * bytes[3] + bytes[4] - 56320)>>
                 \o DecodeUtf16BE(SubSeq(bytes, 5, Len(bytes)))
            ELSE <<unit>> \o DecodeUtf16BE(SubSeq(bytes, 3, Len(bytes)))

\* C14: a string is written between '(' and ')' with every '(' ')' '\' of
\* its payload preceded by a backslash.  The payload is the string's own
\* bytes when every character is ASCII, and FE FF followed by the UTF-16
\* big-endian code units when at least one character is not, whatever the
\* length; the empty string is written "()".
C14_StringPaths ==
    output # None =>
        LET out == output.v
            inner == SubSeq(out, 2, Len(out) - 1)
            payload == Unescape(inner)
        IN /\ Len(out) >= 2
           /\ out[1] = 40 /\ out[Len(out)] = 41
           /\ WellEscaped(inner)
           /\ IF \A i \in DOMAIN input : input[i] < 128
              THEN payload = input
              ELSE /\ Len(payload) >= 4 /\ Len(payload) % 2 = 0
                   /\ payload[1] = 254 /\ payload[2] = 255
                   /\ DecodeUtf16BE(SubSeq(payload, 3, Len(payload))) = input
           /\ (input = <<>> => out = <<40, 41>>)

\* An ASCII character followed by a character whose UTF-16 bytes need
\* escaping, written on the UTF-16 path.
C14_Witness ==
    /\ output # None
    /\ input = <<65, 23593>>
    /\ output.v = <<40, 254, 255, 0, 65, 92, 92, 92, 41, 41>>

-----------------------------------------------------------------------------
(* pdf_image.rs: PDFImage::from_path, from_bytes, from_image *)

STEP_COUNT == 20

\* image::ColorType, and the number of channels of a pixel of that type.
ColorTypes == { "Gray", "RGB", "GrayA", "Palette", "RGBA", "BGR", "BGRA" }
Channels(color) ==
    CASE color \in {"Gray", "Palette"} -> 1
      [] color = "GrayA" -> 2
      [] color \in {"RGB", "BGR"} -> 3
      [] color \in {"RGBA", "BGRA"} -> 4

\* A decoded image (DynamicImage): its colour type, its size, and its
\* pixels.  The images tried are grey everywhere except for at most one
\* pixel, odd, whose channels differ.
DynamicImage(color, width, height, odd) ==
    [color |-> color, width |-> width, height |-> height, odd |-> odd]

GrayPixel == <<7, 7, 7, 255>>

\* GenericImageView::get_pixel of a DynamicImage: always an RGBA pixel.
get_pixel(image, x, y) ==
    IF image.odd.some /\ image.odd.v.x = x /\ image.odd.v.y = y
    THEN image.odd.v.pixel
    ELSE GrayPixel

\* DynamicImage::to_luma and to_rgb, wrapped back into a DynamicImage.
to_luma(image) == DynamicImage("Gray", image.width, image.height, None)
to_rgb(image) == DynamicImage("RGB", image.width, image.height, image.odd)

\* ColourType::from_image_colour_type
from_image_colour_type(color_type) ==
    CASE color_type = "Gray" -> Some("Gray")
      [] color_type = "RGB" -> Some("RGB")
      [] OTHER -> None

RECURSIVE y_loop_green_only(_, _, _)
\* The inner loop with only the second channel compared.
y_loop_green_only(image, x, count) ==
    IF count = STEP_COUNT THEN TRUE
    ELSE LET pixel == get_pixel(image, x,
                                (image.height * count) \div STEP_COUNT)
         IN IF pixel[2] # pixel[1] THEN FALSE
            ELSE y_loop_green_only(image, x, count + 1)

RECURSIVE y_loop(_, _, _)
\* The inner loop of image_can_be_grayscale: y runs over
\* height * count / STEP_COUNT; FALSE stands for the early "return false".
y_loop(image, x, count) ==
    IF count = STEP_COUNT THEN TRUE
    ELSE LET pixel == get_pixel(image, x,
                                (image.height * count) \div STEP_COUNT)
             first_component == pixel[1]
         IN IF pixel[2] # first_component \/ pixel[3] # first_component
            THEN FALSE
            ELSE y_loop(image, x, count + 1)

RECURSIVE x_loop_green_only(_, _)
x_loop_green_only(image, count) ==
    IF count = STEP_COUNT THEN TRUE
    ELSE IF y_loop_green_only(image,
                              (image.width * count) \div STEP_COUNT, 0)
         THEN x_loop_green_only(image, count + 1)
    ELSE FALSE

RECURSIVE x_loop(_, _)
\* The outer loop of image_can_be_grayscale: x runs over
\* width * count / STEP_COUNT.
x_loop(image, count) ==
    IF count = STEP_COUNT THEN TRUE
    ELSE IF y_loop(image, (image.width * count) \div STEP_COUNT, 0)
         THEN x_loop(image, count + 1)
    ELSE FALSE

\* A sampling that compares the second channel only.
image_can_be_grayscale_green_only(image) == x_loop_green_only(image, 0)

\* image_can_be_grayscale
image_can_be_grayscale(image) == x_loop(image, 0)

\* The closure try_to_convert_to_grayscale of from_image.
try_to_convert_to_grayscale(image, old_colour_type) ==
    IF image_can_be_grayscale(image)
    THEN [image |-> to_luma(image), colour_type |-> "Gray"]
    ELSE [image |-> image, colour_type |-> old_colour_type]

\* What stands for the bytes of a payload: the bytes of the source file
\* untouched, the deflated raw pixels of an image, or the image encoded as
\* JPEG at some quality.
SourceBytes(source) == [enc |-> "source", bytes |-> source]
flate_compress(image) ==
    [enc |-> "flate", channels |-> Channels(image.color),
     width |-> image.width, height |-> image.height]
write_to_jpeg(image, quality) ==
    [enc |-> "jpeg", quality |-> quality, channels |-> Channels(image.color),
     width |-> image.width, height |-> image.height]

Ok(v) == [ok |-> TRUE, v |-> v]
Err(e) == [ok |-> FALSE, err |-> e]

\* PDFImage::from_image.  encoded_len is the length the encoder's output
\* turns out to have.
from_image(image, lossless, encoded_len) ==
    LET c == CASE image.color = "Gray" ->
                    [image |-> image, colour_type |-> "Gray"]
               [] image.color = "RGB" ->
                    try_to_convert_to_grayscale(image, "RGB")
               [] image.color = "GrayA" ->
                    [image |-> to_luma(image), colour_type |-> "Gray"]
               [] image.color \in {"Palette", "RGBA", "BGR", "BGRA"} ->
                    try_to_convert_to_grayscale(to_rgb(image), "RGB")
        e == IF lossless
             THEN [payload |-> flate_compress(c.image),
                   image_type |-> "FlateLossless"]
             ELSE [payload |-> write_to_jpeg(c.image, 90),
                   image_type |-> "Jpg"]
    IN Ok([image_bytes |-> encoded_len, payload |-> e.payload,
           width |-> c.image.width, height |-> c.image.height,
           image_type |-> e.image_type, colour_type |-> c.colour_type])

\* from_bytes that never looks for a JPEG source.
from_bytes_reencode(image_bytes, lossless, encoded_len) ==
    IF ~image_bytes.decoded.some THEN Err("ImageError")
    ELSE IF ~from_image_colour_type(image_bytes.decoded.v.color).some
         THEN Err("BadImageColourType")
    ELSE from_image(image_bytes.decoded.v, lossless, encoded_len)

\* PDFImage::from_bytes.  image_bytes is a file's content: what
\* guess_format says of it, what load_from_memory decodes it to (None when
\* it cannot), and its length.
from_bytes(image_bytes, lossless, encoded_len) ==
    IF ~image_bytes.decoded.some THEN Err("ImageError")
    ELSE LET image == image_bytes.decoded.v
             colour_type == from_image_colour_type(image.color)
         IN IF ~colour_type.some THEN Err("BadImageColourType")
            ELSE IF image_bytes.format = "JPEG"
                 THEN Ok([image_bytes |-> image_bytes.len,
                          payload |-> SourceBytes(image_bytes),
                          width |-> image.width, height |-> image.height,
                          image_type |-> "Jpg",
                          colour_type |-> colour_type.v])
            ELSE from_image(image, lossless, encoded_len)

\* PDFImage::from_path: fs::read, then from_bytes.
from_path(image_path, lossless, encoded_len) ==
    IF ~image_path.file.some THEN Err("IOError")
    ELSE from_bytes(image_path.file.v, lossless, encoded_len)

\* The images tried: two sizes, one of them wider than the sampling grid is
\* fine (21 columns: column 20 is never sampled); an image with colour
\* channels has at most one pixel that is not grey, in the second or in the
\* third channel; Gray and GrayA images have none.
ImageSizes == { <<2, 1>>, <<21, 2>> }
OddPixels == { <<7, 8, 7, 255>>, <<7, 7, 8, 255>> }
OddChoices(width, height) ==
    { None } \cup
    { Some([x |-> x, y |-> y, pixel |-> p]) :
        x \in 0..(width - 1), y \in 0..(height - 1), p \in OddPixels }
DynamicImages ==
    { DynamicImage(c, sz[1], sz[2], None) :
        c \in {"Gray", "GrayA"}, sz \in ImageSizes }
    \cup UNION { { DynamicImage(c, sz[1], sz[2], odd) :
                     c \in {"RGB", "Palette", "RGBA", "BGR", "BGRA"},
                     odd \in OddChoices(sz[1], sz[2]) } :
                 sz \in ImageSizes }

\* The files tried: a JPEG (which decodes to Gray or RGB), a file of another
\* container (PNG), and bytes that do not decode.
ImageFiles ==
    { [format |-> "JPEG", decoded |-> Some(i), len |-> 120] :
        i \in { j \in DynamicImages : j.color \in {"Gray", "RGB"} } }
    \cup { [format |-> "PNG", decoded |-> Some(i), len |-> 300] :
             i \in DynamicImages }
    \cup { [format |-> "unknown", decoded |-> None, len |-> 5] }

\* The calls tried: each entry point with each argument and flag.
IngestInputs ==
    { [entry |-> "from_image", arg |-> i, lossless |-> l,
       encoded_len |-> 40] : i \in DynamicImages, l \in BOOLEAN }
    \cup { [entry |-> "from_bytes", arg |-> f, lossless |-> l,
            encoded_len |-> 40] : f \in ImageFiles, l \in BOOLEAN }
    \cup { [entry |-> "from_path", arg |-> [file |-> f], lossless |-> l,
            encoded_len |-> 40] :
             f \in { Some(g) : g \in ImageFiles } \cup { None },
             l \in BOOLEAN }

InitIngest ==
    /\ WriterInit
    /\ input \in IngestInputs
    /\ output = None
    /\ volume = Unused
    /\ pdf_page = Unused

IngestFromImage ==
    /\ output = None
    /\ input.entry = "from_image"
    /\ output' = Some(from_image(input.arg, input.lossless,
                                 input.encoded_len))
    /\ UNCHANGED <<writerVars, input, volume, pdf_page>>

IngestFromBytes ==
    /\ output = None
    /\ input.entry = "from_bytes"
    /\ output' = Some(from_bytes(input.arg, input.lossless,
                                 input.encoded_len))
    /\ UNCHANGED <<writerVars, input, volume, pdf_page>>

IngestFromPath ==
    /\ output = None
    /\ input.entry = "from_path"
    /\ output' = Some(from_path(input.arg, input.lossless,
                                input.encoded_len))
    /\ UNCHANGED <<writerVars, input, volume, pdf_page>>

NextIngest == IngestFromImage \/ IngestFromBytes \/ IngestFromPath

SpecIngest == InitIngest /\ [][NextIngest]_vars

\* The decoded image a call is about and the container it came in ("none"
\* for from_image); HasImage says there is one.
SourceFile ==
    IF input.entry = "from_path" THEN input.arg.file
    ELSE IF input.entry = "from_bytes" THEN Some(input.arg) ELSE None
HasImage ==
    input.entry = "from_image" \/ (SourceFile.some /\ SourceFile.v.decoded.some)
SourceImage ==
    IF input.entry = "from_image" THEN input.arg ELSE SourceFile.v.decoded.v
SourceFormat ==
    IF input.entry = "from_image" THEN "none" ELSE SourceFile.v.format

\* The pixels of the 20 x 20 grid all have equal channels.
AllSampledEqual(image) ==
    \A xc, yc \in 0..(STEP_COUNT - 1) :
        LET p == get_pixel(image, (image.width * xc) \div STEP_COUNT,
                                  (image.height * yc) \div STEP_COUNT)
        IN p[1] = p[2] /\ p[1] = p[3]

\* C15 as stated: an RGB image comes out Gray when every sampled pixel has
\* equal channels and RGB when one has not, through every entry point and
\* from every container, JPEG too.
C15_GrayIffSampledEqual ==
    (output # None /\ HasImage /\ SourceImage.color = "RGB") =>
        /\ output.v.ok
        /\ output.v.v.colour_type =
              (IF AllSampledEqual(SourceImage) THEN "Gray" ELSE "RGB")

\* C15 amended: the same for from_image and for from_bytes and from_path of
\* a source that is not a JPEG; an RGB JPEG given to from_bytes or
\* from_path is not sampled and comes out RGB.
C15_GrayIffSampledEqualUnlessJpeg ==
    (output # None /\ HasImage /\ SourceImage.color = "RGB") =>
        /\ output.v.ok
        /\ output.v.v.colour_type =
              (IF SourceFormat = "JPEG" THEN "RGB"
               ELSE IF AllSampledEqual(SourceImage) THEN "Gray" ELSE "RGB")

\* A PNG whose only coloured pixel (third channel) lies in the column the
\* grid skips: every sampled pixel is grey and the image comes out Gray.
C15_Witness ==
    /\ output # None /\ HasImage
    /\ SourceImage.color = "RGB" /\ SourceFormat = "PNG"
    /\ SourceImage.odd.some /\ SourceImage.odd.v.pixel = <<7, 7, 8, 255>>
    /\ SourceImage.odd.v.x = 20
    /\ output.v.ok /\ output.v.v.colour_type = "Gray"

\* The number of channels of the pixel data that a payload holds.
EmbeddedChannels(payload) ==
    IF payload.enc = "source" THEN Channels(payload.bytes.decoded.v.color)
    ELSE payload.channels

\* C20: for every image that is ingested, a JPEG source is embedded as it
\* is (the payload is the source's bytes) with Filter DCTDecode whatever the
\* lossless flag; any other source is deflated raw pixels with Filter
\* FlateDecode when lossless is asked for and JPEG of quality 90 with Filter
\* DCTDecode when it is not.  ColorSpace is DeviceGray exactly when the
\* embedded data has one channel and DeviceRGB exactly when it has three;
\* BitsPerComponent is 8.
C20_EncodingDecision ==
    (output # None /\ output.v.ok) =>
        LET image == output.v.v
            d == make_image_stream(image).d
        IN /\ IF SourceFormat = "JPEG"
              THEN /\ image.payload = SourceBytes(SourceFile.v)
                   /\ image.image_bytes = SourceFile.v.len
                   /\ d["Filter"] = NameObj("DCTDecode")
              ELSE IF input.lossless
                   THEN /\ image.payload.enc = "flate"
                        /\ d["Filter"] = NameObj("FlateDecode")
                   ELSE /\ image.payload.enc = "jpeg"
                        /\ image.payload.quality = 90
                        /\ d["Filter"] = NameObj("DCTDecode")
           /\ (d["ColorSpace"] = NameObj("DeviceGray"))
                 <=> (EmbeddedChannels(image.payload) = 1)
           /\ (d["ColorSpace"] = NameObj("DeviceRGB"))
                 <=> (EmbeddedChannels(image.payload) = 3)
           /\ d["BitsPerComponent"] = IntObj(8)

\* A JPEG file ingested with the lossless flag set: passed through.
C20_Witness ==
    /\ output # None /\ output.v.ok
    /\ input.entry = "from_path" /\ input.lossless
    /\ SourceFormat = "JPEG"
    /\ output.v.v.payload.enc = "source"
    /\ output.v.v.image_type = "Jpg"

\* C21: image bytes that decode to a palette, alpha (RGBA, GrayA) or
\* BGR/BGRA image are ingested: the result is Ok, Gray for GrayA and, for the
\* others, Gray when every sampled pixel is grey and RGB when not; and
\* BadImageColourType is never the answer for a decodable source.
C21_VariantsIngested ==
    (output # None /\ input.entry \in {"from_bytes", "from_path"}
        /\ HasImage) =>
        /\ ~output.v.ok => output.v.err # "BadImageColourType"
        /\ SourceImage.color = "GrayA" =>
              output.v.ok /\ output.v.v.colour_type = "Gray"
        /\ SourceImage.color \in {"Palette", "RGBA", "BGR", "BGRA"} =>
              /\ output.v.ok
              /\ output.v.v.colour_type =
                    (IF AllSampledEqual(SourceImage) THEN "Gray" ELSE "RGB")

-----------------------------------------------------------------------------
(* manga_pdf volume.rs: create_wide_image *)

\* The most images put side by side on one page.
MaxWideImages == 3

\* A gap is an f64 fraction of the summed width; it is kept here as a whole
\* number of hundredths, so 5 is 0.05 and -2 is -0.02.
GapDen == 100

\* x / y rounded towards zero, as a float-to-integer cast rounds.
TruncDiv(x, y) == IF x >= 0 THEN x \div y ELSE -((-x) \div y)

\* `value as u32` for an f64 num / den.  A value in range is truncated.  For
\* a negative value the cast saturates to 0 (the language since Rust 1.45);
\* in earlier toolchains the cast is undefined behaviour and on x86-64 leaves
\* the low 32 bits of the truncated integer, 2^32 - g for -g.  A u32 is
\* written here by its two's-complement reading, so that 2^32 - g is -g and
\* wrapping sums and products are the plain ones.
f64_as_u32(num, den, cast) ==
    IF num >= 0 THEN TruncDiv(num, den)
    ELSE IF cast = "saturating" THEN 0
    ELSE TruncDiv(num, den)

MaxOf(S) == CHOOSE x \in S : \A y \in S : y <= x

Panic(message) == [ok |-> FALSE, err |-> message]

RECURSIVE place_images(_, _, _, _, _)
\* The loop of create_wide_image: add_image at width_progress, vertically
\* centred, then width_progress += image.width() + actual_gap_width.
\* copy_from refuses an image that does not fit in the canvas, which panics.
place_images(images, actual_gap_width, canvas, placed, width_progress) ==
    IF images = <<>>
    THEN Ok([total_width |-> canvas.width, total_height |-> canvas.height,
             actual_gap_width |-> actual_gap_width,
             placed |-> placed, width_progress |-> width_progress])
    ELSE LET image == Head(images)
             x == width_progress
             y == (canvas.height - image.height) \div 2
         IN IF \/ x < 0
               \/ canvas.width < image.width + x
               \/ canvas.height < image.height + y
            THEN Panic("Failed to add an image to the new, wide image")
            ELSE place_images(Tail(images), actual_gap_width, canvas,
                     Append(placed, [x |-> x, y |-> y,
                                     width |-> image.width,
                                     height |-> image.height]),
                     width_progress + image.width + actual_gap_width)

\* create_wide_image for two or more images (a single image is read by
\* PDFImage::from_path and nothing is laid out).  images are the sizes of
\* the decoded images, gap the hundredths, build the toolchain: how a
\* negative float is cast and whether integer overflow panics.
create_wide_image(images, gap, build) ==
    IF Len(images) = 1
    THEN Ok([total_width |-> images[1].width,
             total_height |-> images[1].height,
             actual_gap_width |-> 0,
             placed |-> << [x |-> 0, y |-> 0, width |-> images[1].width,
                            height |-> images[1].height] >>,
             width_progress |-> 0])
    ELSE LET total_height == MaxOf({ images[i].height : i \in DOMAIN images })
             summed_width == SumSeq([i \in DOMAIN images |-> images[i].width])
             actual_gap_width ==
                 f64_as_u32(summed_width * gap, GapDen, build.cast)
             total_width ==
                 summed_width + actual_gap_width * (Len(images) - 1)
         IN IF actual_gap_width < 0 /\ build.overflow_checks
            THEN Panic("attempt to add with overflow")
            ELSE IF total_width <= 0
                 THEN Panic("the canvas cannot be allocated")
            ELSE place_images(images, actual_gap_width,
                              [width |-> total_width,
                               height |-> total_height], <<>>, 0)

\* The pages tried: one to MaxWideImages images of three sizes, the gaps
\* -0.02, 0, 0.01 and 0.05, and the three toolchains.
WideImageSizes ==
    { [width |-> 1000, height |-> 1500], [width |-> 800, height |-> 1200],
      [width |-> 900, height |-> 1300] }
GapInputs == { -2, 0, 1, 5 }
BuildInputs ==
    { [cast |-> "saturating", overflow_checks |-> FALSE],
      [cast |-> "wrapping", overflow_checks |-> FALSE],
      [cast |-> "wrapping", overflow_checks |-> TRUE] }
WideInputs ==
    { [images |-> s, gap |-> g, build |-> b] :
        s \in SeqsUpTo(WideImageSizes, MaxWideImages) \ { <<>> },
        g \in GapInputs, b \in BuildInputs }

InitWide ==
    /\ WriterInit
    /\ input \in WideInputs
    /\ output = None
    /\ volume = Unused
    /\ pdf_page = Unused

CreateWideImage ==
    /\ output = None
    /\ output' = Some(create_wide_image(input.images, input.gap,
                                        input.build))
    /\ UNCHANGED <<writerVars, input, volume, pdf_page>>

NextWide == CreateWideImage

SpecWide == InitWide /\ [][NextWide]_vars

\* Reading a layout: the images, their number, their summed width, and the
\* pixels between image i and image i + 1 (negative when they overlap).
WideImages == input.images
WideCount == Len(input.images)
SummedWidth == SumSeq([i \in DOMAIN input.images |-> input.images[i].width])
Laid == output.v.v
GapAfter(i) == Laid.placed[i + 1].x - (Laid.placed[i].x + Laid.placed[i].width)
RightEdge(i) == Laid.placed[i].x + Laid.placed[i].width
Abs(x) == IF x < 0 THEN -x ELSE x

\* C16: in the finished layout the widths of the images and the gaps between
\* them add up to the whole width (ratios plus gap fractions are 1).  For a
\* positive gap each image's ratio is its unadjusted ratio, width over summed
\* width, less an equal share of the total gap, (N - 1) * gap / N (to within
\* a pixel); the first image is at x = 0 and the last image ends at the full
\* width.
C16_WidthConserved ==
    (output # None /\ output.v.ok) =>
        /\ SummedWidth
           + SumSeq([i \in 1..(WideCount - 1) |-> GapAfter(i)])
              = Laid.total_width
        /\ input.gap > 0 =>
              /\ \A i \in 1..WideCount :
                    Abs(WideImages[i].width * SummedWidth * WideCount * GapDen
                        - Laid.total_width
                          * (WideImages[i].width * WideCount * GapDen
                             - (WideCount - 1) * input.gap * SummedWidth))
                       <= SummedWidth * WideCount * GapDen
              /\ Laid.placed[1].x = 0
              /\ RightEdge(WideCount) = Laid.total_width

\* C17: with a negative gap each image overlaps the next by the gap's
\* magnitude (as a fraction of the whole width, to within a pixel), the
\* first image starts and the last image ends half the total overlap inside
\* the page, every image keeps its unadjusted ratio (the whole width is the
\* summed width), and the layout is not that of a gap of zero.
C17_NegativeGapOverlaps ==
    (output # None /\ output.v.ok /\ input.gap < 0 /\ WideCount >= 2) =>
        /\ \A i \in 1..(WideCount - 1) :
              /\ GapAfter(i) < 0
              /\ Abs((-GapAfter(i)) * GapDen
                     - (-input.gap) * Laid.total_width) <= GapDen
        /\ Abs(2 * Laid.placed[1].x * GapDen
               - (WideCount - 1) * (-input.gap) * Laid.total_width)
              <= 2 * GapDen
        /\ Abs(2 * (Laid.total_width - RightEdge(WideCount)) * GapDen
               - (WideCount - 1) * (-input.gap) * Laid.total_width)
              <= 2 * GapDen
        /\ Laid.total_width = SummedWidth

-----------------------------------------------------------------------------
(* manga_pdf volume.rs: make_volume *)

\* The most chapters and the most wide pages of a volume description.
MaxChapters == 2
MaxWidePages == 2

\* An error message, with the file names it spells out.
ErrNaming(kind, names) == [ok |-> FALSE, err |-> kind, names |-> names]

\* pdf_utils::compare_file_name: a path is told by its file name alone; a
\* path is written here as its file name.
compare_file_name(path, other) == path = other

\* The index of the first element of seq (from index from on) that
\* satisfies being equal to x, None when there is none: Iterator::find,
\* find_map, position.
FirstIndexOf(seq, x) ==
    LET hits == { i \in DOMAIN seq : compare_file_name(seq[i], x) }
    IN IF hits = {} THEN None ELSE Some(SetMin(hits))

RECURSIVE chapter_map_overwrite(_, _, _)
\* create_chapter_map with an insert that silently replaces an entry.
chapter_map_overwrite(image_paths, chapter_list, chapter_map) ==
    IF chapter_list = <<>> THEN Ok(chapter_map)
    ELSE LET chapter_info == Head(chapter_list)
             found == FirstIndexOf(image_paths, chapter_info.file_name)
         IN IF ~found.some
            THEN ErrNaming("Failed to find the file for chapter",
                           {chapter_info.file_name})
            ELSE chapter_map_overwrite(image_paths, Tail(chapter_list),
                     Insert(chapter_map, image_paths[found.v],
                            chapter_info.chapter_name))

RECURSIVE chapter_map_from(_, _, _)
\* The loop of create_chapter_map: find the image of each chapter, insert
\* it, and fail when the key was there before.
chapter_map_from(image_paths, chapter_list, chapter_map) ==
    IF chapter_list = <<>> THEN Ok(chapter_map)
    ELSE LET chapter_info == Head(chapter_list)
             found == FirstIndexOf(image_paths, chapter_info.file_name)
         IN IF ~found.some
            THEN ErrNaming("Failed to find the file for chapter",
                           {chapter_info.file_name})
            ELSE IF image_paths[found.v] \in DOMAIN chapter_map
                 THEN ErrNaming("The same file starts 2 different chapters",
                                {image_paths[found.v]})
            ELSE chapter_map_from(image_paths, Tail(chapter_list),
                     Insert(chapter_map, image_paths[found.v],
                            chapter_info.chapter_name))

\* create_chapter_map that lets two chapters share a file.
create_chapter_map_overwrite(image_paths, chapter_list) ==
    chapter_map_overwrite(image_paths, chapter_list, Dictionary_new)

\* create_chapter_map
create_chapter_map(image_paths, chapter_list) ==
    chapter_map_from(image_paths, chapter_list, Dictionary_new)

RECURSIVE collect_wide_page(_, _, _, _)
\* The inner loop of create_wide_page_list over the parts of one wide page:
\* each part must be among the images and must not be used yet.
collect_wide_page(image_paths, parts, found_images, wide_page) ==
    IF parts = <<>>
    THEN Ok([found_images |-> found_images, wide_page |-> wide_page])
    ELSE LET wide_page_string == Head(parts)
             image_index == FirstIndexOf(image_paths, wide_page_string)
         IN IF ~image_index.some
            THEN ErrNaming("Failed to find the image from the wide page part",
                           {wide_page_string})
            ELSE IF image_index.v \in found_images
                 THEN ErrNaming("We've already used this image in a page",
                                {wide_page_string})
            ELSE collect_wide_page(image_paths, Tail(parts),
                     found_images \cup {image_index.v},
                     Append(wide_page, image_paths[image_index.v]))

RECURSIVE wide_page_list_from(_, _, _, _, _, _)
\* The outer loop of create_wide_page_list from image i on, and the test
\* after it that every wide page was met.
wide_page_list_from(image_paths, wide_page_infos, i, found_images, found_wide_pages, wide_pages) ==
    IF i > Len(image_paths)
    THEN IF found_wide_pages # DOMAIN wide_page_infos
         THEN ErrNaming("Failed to find all the wide pages",
                  UNION { Range(wide_page_infos[w].pages) :
                            w \in (DOMAIN wide_page_infos)
                                     \ found_wide_pages })
         ELSE Ok(wide_pages)
    ELSE IF i \in found_images
         THEN wide_page_list_from(image_paths, wide_page_infos, i + 1,
                                  found_images, found_wide_pages, wide_pages)
    ELSE LET image == image_paths[i]
             is_part_of == { w \in DOMAIN wide_page_infos :
                               \E k \in DOMAIN wide_page_infos[w].pages :
                                  compare_file_name(
                                      image, wide_page_infos[w].pages[k]) }
         IN IF is_part_of # {}
            THEN LET wide_index == SetMin(is_part_of)
                     wide_page_info == wide_page_infos[wide_index]
                     r == collect_wide_page(image_paths, wide_page_info.pages,
                                            found_images, <<>>)
                 IN IF ~r.ok THEN r
                    ELSE wide_page_list_from(image_paths, wide_page_infos,
                             i + 1, r.v.found_images,
                             found_wide_pages \cup {wide_index},
                             Append(wide_pages,
                                    <<wide_page_info.page_gap,
                                      r.v.wide_page>>))
            ELSE wide_page_list_from(image_paths, wide_page_infos, i + 1,
                     found_images \cup {i}, found_wide_pages,
                     Append(wide_pages, <<0, <<image>>>>))

\* A list that is made without looking at the first image.
create_wide_page_list_from_second(image_paths, wide_page_infos) ==
    wide_page_list_from(image_paths, wide_page_infos, 2, {}, {}, <<>>)

\* create_wide_page_list
create_wide_page_list(image_paths, wide_page_infos) ==
    wide_page_list_from(image_paths, wide_page_infos, 1, {}, {}, <<>>)

\* The volume descriptions tried.  The images found are p1, p2, p3; px is a
\* file that is not among them.  Chapter i is called Ci; a wide page has one
\* or two parts.
ImagePaths == << "p1", "p2", "p3" >>
AnchorFiles == { "p1", "p2", "px" }
ChapterNames == << "C1", "C2", "C3" >>
ChapterLists ==
    { [i \in DOMAIN files |->
          [chapter_name |-> ChapterNames[i], file_name |-> files[i]]] :
        files \in SeqsUpTo(AnchorFiles, MaxChapters) }
WidePageInfos ==
    { [page_gap |-> 5, pages |-> ps] :
        ps \in { <<"p1", "p2">>, <<"p2", "p3">>, <<"p3", "px">>,
                 <<"p2">>, <<"p2", "p2">>, <<"p3", "p1">> } }
VolumeInputs ==
    { [image_paths |-> ImagePaths, chapter_list |-> c,
       wide_page_infos |-> w] :
        c \in ChapterLists, w \in SeqsUpTo(WidePageInfos, MaxWidePages) }

\* make_volume has been called with info and nothing has run yet.
InitVolume ==
    /\ WriterInit
    /\ input = Unused /\ output = Unused
    /\ pdf_page = Unused
    /\ \E info \in VolumeInputs :
          volume = [pc |-> "start", info |-> info,
                    chapter_map |-> Dictionary_new,
                    wide_image_paths |-> <<>>,
                    pages |-> <<>>, outline |-> <<>>,
                    dir_created |-> FALSE, file_saved |-> FALSE,
                    result |-> None]

\* make_volume, lines 16-23: the images, the chapter map and the wide page
\* list; an Err from either ends the call ("?"), otherwise the builder is
\* made.
MakeVolumeStart ==
    /\ volume.pc = "start"
    /\ \E chapter_map \in { create_chapter_map(volume.info.image_paths,
                                                volume.info.chapter_list) } :
          IF ~chapter_map.ok
          THEN volume' = [volume EXCEPT !.pc = "failed",
                                        !.result = Some(chapter_map)]
          ELSE \E wide_image_paths \in
                    { create_wide_page_list(volume.info.image_paths,
                                            volume.info.wide_page_infos) } :
                  IF ~wide_image_paths.ok
                  THEN volume' = [volume EXCEPT
                                     !.pc = "failed",
                                     !.result = Some(wide_image_paths)]
                  ELSE volume' = [volume EXCEPT
                                     !.pc = "building",
                                     !.chapter_map = chapter_map.v,
                                     !.wide_image_paths = wide_image_paths.v]
    /\ UNCHANGED <<writerVars, input, output, pdf_page>>

\* One turn of the loop of make_volume, lines 25-34: the wide image is made
\* and added as a page; the first of its files that starts a chapter is
\* taken out of the chapter map and the page is marked with that chapter.
BuildPage ==
    /\ volume.pc = "building"
    /\ volume.wide_image_paths # <<>>
    /\ LET wide_page_paths == Head(volume.wide_image_paths)
           paths == wide_page_paths[2]
           starts == { k \in DOMAIN paths :
                         paths[k] \in DOMAIN volume.chapter_map }
           new_pages == Append(volume.pages,
                               [gap |-> wide_page_paths[1], images |-> paths])
       IN volume' =
            IF starts = {}
            THEN [volume EXCEPT !.wide_image_paths = Tail(@),
                                !.pages = new_pages]
            ELSE LET path == paths[SetMin(starts)]
                 IN [volume EXCEPT
                        !.wide_image_paths = Tail(@),
                        !.pages = new_pages,
                        !.chapter_map =
                            [p \in (DOMAIN @) \ {path} |-> @[p]],
                        !.outline =
                            Append(@, <<volume.chapter_map[path],
                                        Len(new_pages)>>)]
    /\ UNCHANGED <<writerVars, input, output, pdf_page>>

\* The end of make_volume, lines 36-49: create_dir_all of the parent
\* directory, which can fail, then builder.save.
SaveVolume ==
    /\ volume.pc = "building"
    /\ volume.wide_image_paths = <<>>
    /\ \E mkdirs_ok \in BOOLEAN :
          IF mkdirs_ok
          THEN volume' = [volume EXCEPT !.pc = "done",
                                        !.dir_created = TRUE,
                                        !.file_saved = TRUE,
                                        !.result = Some(Ok(<<>>))]
          ELSE volume' = [volume EXCEPT
                             !.pc = "failed",
                             !.result = Some(ErrNaming("Failed to mkdirs",
                                                       {}))]
    /\ UNCHANGED <<writerVars, input, output, pdf_page>>

NextVolume == MakeVolumeStart \/ BuildPage \/ SaveVolume

SpecVolume == InitVolume /\ [][NextVolume]_vars

\* What is wrong with a volume description: the files that a chapter is
\* anchored to but that are not among the images, the files that two
\* chapters are anchored to, the wide-page parts that are not among the
\* images, and the parts that stand in more than one place of the wide
\* pages.
ImageNames == Range(volume.info.image_paths)
ChapterList == volume.info.chapter_list
WideInfos == volume.info.wide_page_infos
AbsentAnchors ==
    { ChapterList[i].file_name : i \in DOMAIN ChapterList } \ ImageNames
SharedAnchors ==
    { ChapterList[i].file_name :
        i \in { j \in DOMAIN ChapterList :
                  \E k \in DOMAIN ChapterList :
                     k # j /\ ChapterList[k].file_name
                                = ChapterList[j].file_name } }
PartPlaces ==
    UNION { { <<w, k>> : k \in DOMAIN WideInfos[w].pages } :
            w \in DOMAIN WideInfos }
PartAt(wk) == WideInfos[wk[1]].pages[wk[2]]
MissingParts == { PartAt(wk) : wk \in PartPlaces } \ ImageNames
ReusedParts ==
    { PartAt(wk) :
        wk \in { a \in PartPlaces :
                   \E b \in PartPlaces : b # a /\ PartAt(b) = PartAt(a) } }
OffendingFiles ==
    AbsentAnchors \cup SharedAnchors \cup MissingParts \cup ReusedParts

PageGroups ==
    [k \in DOMAIN volume.pages |->
        <<volume.pages[k].gap, volume.pages[k].images>>]
    \o volume.wide_image_paths
FirstPlace(group) ==
    SetMin({ n \in DOMAIN volume.info.image_paths :
               volume.info.image_paths[n] \in Range(group[2]) })

\* C30: when create_wide_page_list has succeeded, every discovered image
\* stands in exactly one place of exactly one group and the groups hold
\* nothing else; every configured wide page is exactly one group, its
\* parts in the configured order under its configured gap; every other
\* group is one image with gap 0; and the groups are in the order of their
\* earliest image in the discovered list.
C30_GroupsPartitionImages ==
    volume.pc \in {"building", "done"} =>
        LET places == { gk \in (DOMAIN PageGroups) \X
                                 (DOMAIN volume.info.image_paths) :
                          gk[2] \in DOMAIN PageGroups[gk[1]][2] }
            wide == { <<WideInfos[w].page_gap, WideInfos[w].pages>> :
                        w \in DOMAIN WideInfos }
        IN /\ \A n \in DOMAIN volume.info.image_paths :
                 Cardinality({ gk \in places :
                     PageGroups[gk[1]][2][gk[2]]
                        = volume.info.image_paths[n] }) = 1
           /\ \A g \in DOMAIN PageGroups :
                 /\ Len(PageGroups[g][2]) <= Len(volume.info.image_paths)
                 /\ Range(PageGroups[g][2]) \subseteq ImageNames
                 /\ PageGroups[g][2] # <<>>
           /\ \A w \in DOMAIN WideInfos :
                 Cardinality({ g \in DOMAIN PageGroups :
                     PageGroups[g] = <<WideInfos[w].page_gap,
                                       WideInfos[w].pages>> }) = 1
           /\ \A g \in DOMAIN PageGroups :
                 PageGroups[g] \notin wide =>
                    /\ Len(PageGroups[g][2]) = 1
                    /\ PageGroups[g][1] = 0
           /\ \A g, h \in DOMAIN PageGroups :
                 g < h => FirstPlace(PageGroups[g]) < FirstPlace(PageGroups[h])

\* C30 witness: a wide page of the third and the first image, in that
\* order, comes first, and the second image follows alone.
C30_Witness ==
    /\ volume.pc = "building"
    /\ volume.pages = <<>>
    /\ volume.wide_image_paths =
          << <<5, <<"p3", "p1">>>>, <<0, <<"p2">>>> >>

\* C29: when make_volume has succeeded the chapter map is empty and every
\* chapter of the list is marked exactly once, on the page whose images
\* hold the chapter's anchor, also when two chapters have their anchors in
\* one wide page.
C29_EveryChapterMarked ==
    volume.pc = "done" =>
        /\ DOMAIN volume.chapter_map = {}
        /\ \A i \in DOMAIN ChapterList :
              LET marks == { m \in DOMAIN volume.outline :
                               volume.outline[m][1]
                                  = ChapterList[i].chapter_name }
              IN /\ Cardinality(marks) = 1
                 /\ \A m \in marks :
                       \E k \in DOMAIN volume.pages[volume.outline[m][2]].images :
                          compare_file_name(
                              volume.pages[volume.outline[m][2]].images[k],
                              ChapterList[i].file_name)

-----------------------------------------------------------------------------
(* page.rs: where PDFPage::add_image puts an image *)

\* The f64 values of add_image as exact fractions <<numerator, denominator>>
\* in lowest terms (denominator positive).
RECURSIVE Gcd(_, _)
Gcd(a, b) == IF b = 0 THEN a ELSE Gcd(b, a % b)
Rat(n, d) ==
    LET s == IF d < 0 THEN -1 ELSE 1
        g == Gcd(Abs(n), Abs(d))
    IN <<(s * n) \div g, (s * d) \div g>>
RatAdd(a, b) == Rat(a[1] * b[2] + b[1] * a[2], a[2] * b[2])
RatSub(a, b) == Rat(a[1] * b[2] - b[1] * a[2], a[2] * b[2])
RatMul(a, b) == Rat(a[1] * b[1], a[2] * b[2])
RatDiv(a, b) == Rat(a[1] * b[2], a[2] * b[1])
RatGt(a, b) == a[1] * b[2] > b[1] * a[2]
RatLe(a, b) == ~RatGt(a, b)

Justify == { "Start", "End", "Center", "SpaceBetween" }

\* A placement that leaves every image at the start of its band.
add_image_placement_end_at_start(width, height, image_ref, start_x_percent, end_x_percent, justify) ==
    LET start_x == RatMul(width, start_x_percent)
        end_x == RatMul(width, end_x_percent)
        image_width_on_page == RatSub(end_x, start_x)
        pdf_page_ratio == RatDiv(image_width_on_page, height)
        image_ratio == Rat(image_ref.width, image_ref.height)
        fit == IF RatGt(pdf_page_ratio, image_ratio)
               THEN LET new_width == RatMul(height, image_ratio)
                    IN [scale_width |-> new_width, scale_height |-> height,
                        x |-> start_x, y |-> Rat(0, 1)]
               ELSE LET new_height == RatDiv(image_width_on_page, image_ratio)
                    IN [scale_width |-> image_width_on_page,
                        scale_height |-> new_height, x |-> start_x,
                        y |-> RatDiv(RatSub(height, new_height), Rat(2, 1))]
    IN fit

\* PDFPage::add_image, up to the instructions: the scale and the translation
\* of the image on a page of width x height, the image fitted into the band
\* from start_x_percent to end_x_percent of the page's width.
add_image_placement(width, height, image_ref, start_x_percent, end_x_percent, justify) ==
    LET start_x == RatMul(width, start_x_percent)
        end_x == RatMul(width, end_x_percent)
        image_width_on_page == RatSub(end_x, start_x)
        pdf_page_ratio == RatDiv(image_width_on_page, height)
        image_ratio == Rat(image_ref.width, image_ref.height)
        fit == IF RatGt(pdf_page_ratio, image_ratio)
               THEN LET new_width == RatMul(height, image_ratio)
                        leftover_width == RatSub(image_width_on_page,
                                                 new_width)
                    IN [scale_width |-> new_width, scale_height |-> height,
                        x |-> RatAdd(start_x,
                                     RatDiv(leftover_width, Rat(2, 1))),
                        y |-> Rat(0, 1)]
               ELSE LET new_height == RatDiv(image_width_on_page, image_ratio)
                        leftover_height == RatSub(height, new_height)
                    IN [scale_width |-> image_width_on_page,
                        scale_height |-> new_height, x |-> start_x,
                        y |-> RatDiv(leftover_height, Rat(2, 1))]
    IN CASE justify = "Start" -> [fit EXCEPT !.x = start_x]
         [] justify = "End" ->
                [fit EXCEPT !.x = RatSub(end_x, fit.scale_width)]
         [] OTHER -> fit

\* The placements tried: the two page sizes, every band of quarters of the
\* page, images narrower than, wider than and of the shape of a band, and
\* every justify mode.
PercentDen == 4
PlacedImageSizes == { <<1000, 1500>>, <<1500, 1000>>, <<600, 900>>, <<7, 5>> }
PlaceInputs ==
    { [width |-> Rat(sz[1], 1), height |-> Rat(sz[2], 1),
       image_ref |-> ImageRef_new(<<2, 0>>, im[1], im[2]),
       start_x_percent |-> Rat(s, PercentDen),
       end_x_percent |-> Rat(e, PercentDen), justify |-> j] :
        sz \in PageSizes, im \in PlacedImageSizes,
        s \in 0..PercentDen, e \in 0..PercentDen, j \in Justify }

InitPlace ==
    /\ WriterInit
    /\ input \in { i \in PlaceInputs :
                     RatGt(i.end_x_percent, i.start_x_percent) }
    /\ output = None
    /\ volume = Unused
    /\ pdf_page = Unused

PlaceImage ==
    /\ output = None
    /\ output' = Some(add_image_placement(input.width, input.height,
                          input.image_ref, input.start_x_percent,
                          input.end_x_percent, input.justify))
    /\ UNCHANGED <<writerVars, input, volume, pdf_page>>

NextPlace == PlaceImage

SpecPlace == InitPlace /\ [][NextPlace]_vars

\* The band of a placement, and the slack left and right of the image in it.
BandStart == RatMul(input.width, input.start_x_percent)
BandEnd == RatMul(input.width, input.end_x_percent)
SlackLeft == RatSub(output.v.x, BandStart)
SlackRight == RatSub(BandEnd, RatAdd(output.v.x, output.v.scale_width))
SlackBelow == output.v.y
SlackAbove == RatSub(input.height, RatAdd(output.v.y, output.v.scale_height))

\* C22: the image keeps its aspect ratio; it is no wider than the band and
\* no higher than the page, and as wide as the band or as high as the page;
\* it lies inside the band, at its start for Start, at its end for End and
\* with equal slack on both sides for Center and SpaceBetween; and it has
\* equal slack above and below when it is as wide as the band.
C22_LargestFitInBand ==
    output # None =>
        LET p == output.v
            band == RatSub(BandEnd, BandStart)
        IN /\ RatDiv(p.scale_width, p.scale_height)
                 = Rat(input.image_ref.width, input.image_ref.height)
           /\ RatLe(p.scale_width, band)
           /\ RatLe(p.scale_height, input.height)
           /\ p.scale_width = band \/ p.scale_height = input.height
           /\ RatLe(Rat(0, 1), SlackLeft) /\ RatLe(Rat(0, 1), SlackRight)
           /\ input.justify = "Start" => SlackLeft = Rat(0, 1)
           /\ input.justify = "End" => SlackRight = Rat(0, 1)
           /\ input.justify \in {"Center", "SpaceBetween"} =>
                 SlackLeft = SlackRight
           /\ p.scale_width = band =>
                 /\ SlackBelow = SlackAbove
                 /\ RatLe(Rat(0, 1), SlackBelow)

\* C22 witness: a tall image justified to the end of the right half of a
\* wide page: as high as the page, narrower than the band, its right edge on
\* the band's end.
C22_Witness ==
    /\ output # None
    /\ input.justify = "End"
    /\ input.width = Rat(1200, 1) /\ input.height = Rat(900, 1)
    /\ input.start_x_percent = Rat(1, 2) /\ input.end_x_percent = Rat(1, 1)
    /\ input.image_ref.width = 1000 /\ input.image_ref.height = 1500
    /\ output.v = [scale_width |-> Rat(600, 1), scale_height |-> Rat(900, 1),
                   x |-> Rat(600, 1), y |-> Rat(0, 1)]

-----------------------------------------------------------------------------
(* page.rs, page/text.rs: a page and the text layouts that borrow it *)

MaxLayouts == 2
MaxCalls == 3

\* PDFPage::add_instruction: PDFPage.instructions is a list of (operator,
\* arguments).
add_instruction(instructions, operator, arguments) ==
    Append(instructions, <<operator, arguments>>)

\* The instructions of add_image for a placement.
add_image_instructions(instructions, image_ref, placed) ==
    LET i1 == add_instruction(instructions, "q", <<>>)
        i2 == add_instruction(i1, "cm",
                  <<IntObj(1), IntObj(0), IntObj(0), IntObj(1),
                    RealObj(placed.x), RealObj(placed.y)>>)
        i3 == add_instruction(i2, "cm",
                  <<RealObj(placed.scale_width), IntObj(0), IntObj(0),
                    RealObj(placed.scale_height), IntObj(0), IntObj(0)>>)
        i4 == add_instruction(i3, "Do", <<NameObj(image_ref.ref_name)>>)
    IN add_instruction(i4, "Q", <<>>)

\* An add_image that leaves the page's resources as they are.
PDFPage_add_image_unlisted(page, image_ref, start_x_percent, end_x_percent, justify) ==
    [page EXCEPT
        !.instructions =
            add_image_instructions(@, image_ref,
                add_image_placement(page.width, page.height, image_ref,
                    start_x_percent, end_x_percent, justify))]

\* PDFPage::add_image: one graphics frame that draws the image where
\* add_image_placement puts it, and the image's entry in the page's XObject
\* dictionary.
PDFPage_add_image(page, image_ref, start_x_percent, end_x_percent, justify) ==
    [page EXCEPT
        !.instructions =
            add_image_instructions(@, image_ref,
                add_image_placement(page.width, page.height, image_ref,
                    start_x_percent, end_x_percent, justify)),
        !.xobject_dictionary =
            Insert(@, image_ref.ref_name, RefObj(image_ref.id))]

\* PDFPage::add_full_width_image
add_full_width_image(page, image_ref) ==
    PDFPage_add_image(page, image_ref, Rat(0, 1), Rat(1, 1), "Center")

TextMetrics(direction, text_height, line_gap, paragraph_indent) ==
    [direction |-> direction, text_height |-> text_height,
     line_gap |-> line_gap, paragraph_indent |-> paragraph_indent]
font_direction(metrics) == metrics.direction
line_height(metrics) == metrics.text_height + metrics.line_gap

\* new_text_layout: starts the text object on the page and puts the cursor
\* in the top-left (horizontal) or top-right (vertical) corner.
new_text_layout(text_rect, metrics, instructions) ==
    [page |-> add_instruction(instructions, "BT", <<>>),
     layout |-> [text_rect |-> text_rect, metrics |-> metrics,
                 cursor |-> IF font_direction(metrics) = "Horizontal"
                            THEN <<text_rect[1], text_rect[4]>>
                            ELSE <<text_rect[3], text_rect[4]>>]]

is_within_rect(layout) ==
    /\ layout.text_rect[1] < layout.cursor[1]
    /\ layout.cursor[1] < layout.text_rect[3]
    /\ layout.text_rect[2] < layout.cursor[2]
    /\ layout.cursor[2] < layout.text_rect[4]

TextContent_text(string) == [kind |-> "Text", text |-> string]
TextContent_ruby(base, above) ==
    [kind |-> "Ruby", text |-> base, above |-> above]

\* How many characters println prints to the standard output.
printed_chars(text_contents) ==
    UNION { { <<i, j>> : j \in DOMAIN text_contents[i].text } :
            i \in DOMAIN text_contents }

\* TextLayout::println: prints the bounds of every character and returns
\* None; it adds no instruction to the page. println! panics when the
\* standard output cannot be written.
println(layout, text_contents, stdout_ok) ==
    IF printed_chars(text_contents) # {} /\ ~stdout_ok
    THEN [panicked |-> TRUE, layout |-> layout]
    ELSE [panicked |-> FALSE, layout |-> layout, leftover |-> None]

\* TextLayout::paragraph: the indent, then println while the cursor is within
\* the rectangle and text is left over.
paragraph(layout, text_contents, stdout_ok) ==
    LET indented ==
            IF font_direction(layout.metrics) = "Horizontal"
            THEN [layout EXCEPT !.cursor[1] =
                                    @ + layout.metrics.paragraph_indent]
            ELSE [layout EXCEPT !.cursor[2] =
                                    @ - layout.metrics.paragraph_indent]
    IN IF is_within_rect(indented)
       THEN println(indented, text_contents, stdout_ok)
       ELSE [panicked |-> FALSE, layout |-> indented,
             leftover |-> Some(text_contents)]

new_line(layout) ==
    IF font_direction(layout.metrics) = "Horizontal"
    THEN [layout EXCEPT !.cursor =
            <<layout.text_rect[1], @[2] - line_height(layout.metrics)>>]
    ELSE [layout EXCEPT !.cursor =
            <<@[1] - line_height(layout.metrics), layout.text_rect[4]>>]

\* A layout that leaves the page as it is when it goes out of scope.
TextLayout_drop_nothing(instructions) == instructions

\* impl Drop for TextLayout: ends the text object.
TextLayout_drop(instructions) == add_instruction(instructions, "ET", <<>>)

TextRects == { <<10, 10, 590, 590>>, <<0, 0, 30, 20>> }
MetricsInputs ==
    { TextMetrics(d, 12, g, p) :
        d \in {"Horizontal", "Vertical"}, g \in {0, 4}, p \in {0, 20} }
TextInputs ==
    { <<>>, <<TextContent_text(<<84, 105>>)>>,
      <<TextContent_ruby(<<28450>>, <<12363>>), TextContent_text(<<>>)>> }

\* The images the page is given: one over the full width of the page and
\* one at the start of its left half.
PageImageInputs ==
    { [image_ref |-> ImageRef_new(<<2, 0>>, 1000, 1500), full_width |-> TRUE],
      [image_ref |-> ImageRef_new(<<3, 0>>, 7, 5), full_width |-> FALSE] }

\* PDFPage::new(600.0, 900.0).  Besides the page's fields: emitted_by
\* records, for every instruction, the layout that added it (0: the page
\* itself); layouts counts the layouts made so far, exit is the way the last
\* one went out of scope, and log lists the calls made on the page.
InitText ==
    /\ WriterInit
    /\ input = Unused /\ output = Unused /\ volume = Unused
    /\ pdf_page = [width |-> Rat(600, 1), height |-> Rat(900, 1),
                   xobject_dictionary |-> Dictionary_new,
                   instructions |-> <<>>, layout |-> None,
                   emitted_by |-> <<>>, layouts |-> 0, calls |-> 0,
                   exit |-> "none", leftover |-> None, log |-> <<>>]

\* The page after a call: the new instructions are those of `by`.
PageAfter(instructions, layout, by, calls, exit, leftover) ==
    [pdf_page EXCEPT
        !.instructions = instructions,
        !.layout = layout,
        !.emitted_by =
            @ \o [i \in 1..(Len(instructions) - Len(pdf_page.instructions))
                    |-> by],
        !.layouts = IF by > @ THEN by ELSE @,
        !.calls = calls, !.exit = exit, !.leftover = leftover]

\* The fields of PDFPage.
PDFPageOf(p) ==
    [width |-> p.width, height |-> p.height,
     xobject_dictionary |-> p.xobject_dictionary,
     instructions |-> p.instructions]

\* PDFPage::add_image and add_full_width_image.  The borrow of the page by
\* a live layout keeps the page from being used.
PageAddImage ==
    /\ pdf_page.layout = None
    /\ pdf_page.calls < MaxCalls
    /\ \E i \in PageImageInputs :
          \E r \in { IF i.full_width
                     THEN add_full_width_image(PDFPageOf(pdf_page),
                                               i.image_ref)
                     ELSE PDFPage_add_image(PDFPageOf(pdf_page), i.image_ref,
                                            Rat(0, 1), Rat(1, 2), "Start") } :
             pdf_page' =
                [PageAfter(r.instructions, None, 0, pdf_page.calls + 1,
                           pdf_page.exit, None)
                    EXCEPT !.xobject_dictionary = r.xobject_dictionary,
                           !.log = Append(@, [call |-> "add_image",
                                             image_ref |-> i.image_ref])]
    /\ UNCHANGED <<writerVars, callVars, volume>>

\* PDFPage::text_layout
TextLayoutNew ==
    /\ pdf_page.layout = None
    /\ pdf_page.layouts < MaxLayouts
    /\ \E text_rect \in TextRects, metrics \in MetricsInputs :
          \E r \in { new_text_layout(text_rect, metrics,
                                     pdf_page.instructions) } :
             pdf_page' =
                [PageAfter(r.page, Some(r.layout), pdf_page.layouts + 1,
                           pdf_page.calls, "none", None)
                    EXCEPT !.log = Append(@, [call |-> "text_layout"])]
    /\ UNCHANGED <<writerVars, callVars, volume>>

\* What a call on the live layout leaves: a panic unwinds the caller's
\* frame, which drops the layout.
AfterCall(r) ==
    IF r.panicked
    THEN PageAfter(TextLayout_drop(pdf_page.instructions), None,
                   pdf_page.layouts, pdf_page.calls + 1, "unwind", None)
    ELSE PageAfter(pdf_page.instructions, Some(r.layout),
                   pdf_page.layouts, pdf_page.calls + 1, "none", r.leftover)

TextPrintln ==
    /\ pdf_page.layout # None
    /\ pdf_page.calls < MaxCalls
    /\ \E text_contents \in TextInputs, stdout_ok \in BOOLEAN :
          pdf_page' = AfterCall(println(pdf_page.layout.v, text_contents,
                                        stdout_ok))
    /\ UNCHANGED <<writerVars, callVars, volume>>

TextParagraph ==
    /\ pdf_page.layout # None
    /\ pdf_page.calls < MaxCalls
    /\ \E text_contents \in TextInputs, stdout_ok \in BOOLEAN :
          pdf_page' = AfterCall(paragraph(pdf_page.layout.v, text_contents,
                                          stdout_ok))
    /\ UNCHANGED <<writerVars, callVars, volume>>

TextNewLine ==
    /\ pdf_page.layout # None
    /\ pdf_page.calls < MaxCalls
    /\ pdf_page' = PageAfter(pdf_page.instructions,
                             Some(new_line(pdf_page.layout.v)),
                             pdf_page.layouts, pdf_page.calls + 1, "none",
                             None)
    /\ UNCHANGED <<writerVars, callVars, volume>>

\* The layout goes out of scope, at the end of its block or at a return
\* before it.
TextScopeEnd ==
    /\ pdf_page.layout # None
    /\ \E path \in {"end of block", "early return"} :
          pdf_page' = PageAfter(TextLayout_drop(pdf_page.instructions), None,
                                pdf_page.layouts, pdf_page.calls, path, None)
    /\ UNCHANGED <<writerVars, callVars, volume>>

NextText ==
    \/ PageAddImage
    \/ TextLayoutNew
    \/ TextPrintln
    \/ TextParagraph
    \/ TextNewLine
    \/ TextScopeEnd

SpecText == InitText /\ [][NextText]_vars

\* The operators of the page's instructions; the instructions of one
\* layout, and the text objects open before an instruction.
Operators == [i \in DOMAIN pdf_page.instructions |->
                 pdf_page.instructions[i][1]]
InstructionsOf(layout_number) ==
    { i \in DOMAIN pdf_page.instructions :
        pdf_page.emitted_by[i] = layout_number }
Emitted(layout_number, operator) ==
    { i \in InstructionsOf(layout_number) :
        Operators[i] = operator }
OpenBefore(i) ==
    Cardinality({ k \in 1..(i - 1) : Operators[k] = "BT" })
    - Cardinality({ k \in 1..(i - 1) : Operators[k] = "ET" })
IsLive(layout_number) ==
    pdf_page.layout # None /\ layout_number = pdf_page.layouts

\* C19: every text layout adds BT exactly once, as its first instruction;
\* while it is alive it has added no ET; once its scope has ended, whatever
\* the calls made on it and whether the scope ended at the end of the block,
\* at an early return or by a panic, it has added ET exactly once, as its
\* last instruction; and every ET on the page closes exactly one open BT.
C19_BeginEndTextOnce ==
    /\ \A n \in 1..pdf_page.layouts :
          /\ Cardinality(Emitted(n, "BT")) = 1
          /\ \A i \in InstructionsOf(n) : \A b \in Emitted(n, "BT") : b <= i
          /\ IF IsLive(n)
             THEN Emitted(n, "ET") = {}
             ELSE /\ Cardinality(Emitted(n, "ET")) = 1
                  /\ \A i \in InstructionsOf(n) :
                        \A e \in Emitted(n, "ET") : i <= e
    /\ \A i \in DOMAIN pdf_page.instructions :
          /\ Operators[i] = "ET" => OpenBefore(i) = 1
          /\ Operators[i] = "BT" => OpenBefore(i) = 0
    /\ pdf_page.layout = None =>
          OpenBefore(Len(pdf_page.instructions) + 1) = 0

\* C19 witness: a second layout, made after an image was added, has been
\* dropped by the panic of a println.
C19_Witness ==
    /\ pdf_page.layouts = 2
    /\ pdf_page.layout = None
    /\ pdf_page.exit = "unwind"
    /\ Operators = <<"BT", "ET", "q", "cm", "cm", "Do", "Q", "BT", "ET">>
    /\ pdf_page.emitted_by = <<1, 1, 0, 0, 0, 0, 0, 2, 2>>

RECURSIVE GroupedAs(_, _)
\* instructions is, call by call of log, a q cm cm Do Q group whose Do names
\* the call's image, listed in the page's XObject dictionary under the
\* image's id, or a BT .. ET block that holds no q, cm, Do, Q or BT.
GroupedAs(instructions, log) ==
    IF log = <<>> THEN instructions = <<>>
    ELSE IF Head(log).call = "add_image"
    THEN /\ Len(instructions) >= 5
         /\ [i \in 1..5 |-> instructions[i][1]] = <<"q", "cm", "cm", "Do", "Q">>
         /\ LET ref == Head(log).image_ref
            IN /\ instructions[4][2] = <<NameObj(ref.ref_name)>>
               /\ ref.ref_name \in DOMAIN pdf_page.xobject_dictionary
               /\ pdf_page.xobject_dictionary[ref.ref_name] = RefObj(ref.id)
         /\ GroupedAs(SubSeq(instructions, 6, Len(instructions)), Tail(log))
    ELSE /\ Len(instructions) >= 2
         /\ instructions[1][1] = "BT"
         /\ \E e \in 2..Len(instructions) :
               /\ instructions[e][1] = "ET"
               /\ \A j \in 2..(e - 1) :
                     instructions[j][1] \notin {"q", "cm", "Do", "Q", "BT", "ET"}
               /\ GroupedAs(SubSeq(instructions, e + 1, Len(instructions)),
                            Tail(log))

\* C26: whenever no layout is alive, the page's instructions are, in the
\* order of the calls, one complete q cm cm Do Q group for every add_image
\* and one complete BT .. ET block for every layout, none inside another;
\* every Do names an image that the page's XObject dictionary maps to the
\* image's object id, and the dictionary lists nothing else.
C26_PageInstructionGroups ==
    pdf_page.layout = None =>
        /\ GroupedAs(pdf_page.instructions, pdf_page.log)
        /\ DOMAIN pdf_page.xobject_dictionary =
              { pdf_page.log[k].image_ref.ref_name :
                  k \in { j \in DOMAIN pdf_page.log :
                            pdf_page.log[j].call = "add_image" } }

\* C26 witness: an image, a layout that has ended, and the same image again.
C26_Witness ==
    /\ pdf_page.layout = None
    /\ [k \in DOMAIN pdf_page.log |-> pdf_page.log[k].call]
          = <<"add_image", "text_layout", "add_image">>
    /\ pdf_page.log[1] = pdf_page.log[3]
    /\ Len(pdf_page.instructions) = 12
    /\ DOMAIN pdf_page.xobject_dictionary = {"Image2"}

\* A layout that no call has moved yet: its cursor is in the corner where
\* new_text_layout puts it, and its rectangle has a positive width and
\* height.
IsFreshLayout ==
    /\ pdf_page.layout # None
    /\ LET l == pdf_page.layout.v
       IN /\ l.text_rect[1] < l.text_rect[3] /\ l.text_rect[2] < l.text_rect[4]
          /\ l.cursor = new_text_layout(l.text_rect, l.metrics, <<>>)
                           .layout.cursor

\* C25: a paragraph call on a fresh layout prints at least its first line:
\* it returns what println returns for it (no leftover, println places all
\* the text it is given) or ends in println's panic; it never hands text
\* back without having printed.
C25_ParagraphPrintsFirstLine ==
    [][ (TextParagraph /\ IsFreshLayout) =>
            \/ pdf_page'.leftover = None
            \/ pdf_page'.leftover = Some(<<>>)
            \/ pdf_page'.exit = "unwind" ]_vars

====
